---- MODULE Spec2Model ----
(***************************************************************************)
(* A model of the OMR evaluation pipeline of app/core/omr_processor.py, of *)
(* the score and statistics utilities of app/backend/utils.py and of the   *)
(* answer key validators of app/backend/schemas.py.                        *)
(*                                                                         *)
(* Python values are modelled as follows.  A str is the sequence of its    *)
(* characters (<<"Q","5">> is "Q5"); an AnswerMap value is a record with a *)
(* tag t ("str", "none" or "list") and the characters / letters v, and so  *)
(* is every other value that may be None; a dict                           *)
(* that the code iterates is the sequence of its items in insertion order; *)
(* a dict that the code only looks up is a function.  A float that the     *)
(* code computes as (a / b) * c is the exact rational [n |-> a*c, d |-> b]:*)
(* for the counts 0..20 the IEEE result of (c / 20) * 20 is exactly c.     *)
(* The bin edges of calculate_score_distribution are exact rationals too;  *)
(* on the score lists of DistributionCalls they give the counts and labels *)
(* of the float computation.                                               *)
(***************************************************************************)
EXTENDS Integers, Sequences, FiniteSets, TLC

VARIABLES
    student_answers,   \* argument of the scorers: items of the AnswerMap
    correct_answers,   \* argument of the scorers: the answer key
    scores,            \* what OMRProcessor.calculate_subject_scores returned
    utils_scores,      \* what utils.calculate_subject_scores returned
    called,            \* which scorer has been applied to the arguments
    original_image,    \* argument of create_overlay_image
    overlay_input,     \* argument of create_overlay_image: bubble_results
    overlay_output,    \* what create_overlay_image returned
    answer_keys,       \* OMRProcessor.answer_keys: version -> answer key
    image_paths,       \* batch_process_omr_sheets: its arguments ...
    sheet_versions,
    student_ids,
    batch_i,           \* ... its loop index i
    batch_results,     \* ... and its results list
    batch_pc,          \* "idle", "loop" or "returned"
    pc,                \* process_omr_sheet: the step to take next
    image_path,        \* ... the sheet it processes
    sheet_version,     \* ... its local sheet_version
    results,           \* ... its results dict
    bubble_results,    \* ... the detector's output
    answer_mapping,    \* ... the mapper's output
    calls,             \* ... the components it has called, in order
    files,             \* the images written by cv2.imwrite, by path
    util_call,         \* app/backend: the function called and its arguments
    util_result        \* ... and what it returned or raised

scorer_vars == <<student_answers, correct_answers, scores, utils_scores, called>>

overlay_vars == <<original_image, overlay_input, overlay_output>>

processor_vars == <<answer_keys>>

batch_vars == <<image_paths, sheet_versions, student_ids, batch_i, batch_results,
                batch_pc>>

sheet_vars == <<pc, image_path, sheet_version, results, bubble_results,
                answer_mapping, calls>>

pipeline_vars == <<processor_vars, batch_vars, sheet_vars, files>>

utils_vars == <<util_call, util_result>>

vars == <<scorer_vars, overlay_vars, pipeline_vars, utils_vars>>

-----------------------------------------------------------------------------
(* Bounds of the model *)

MaxAnswers == 2
MaxRows == 2
MaxSheets == 2
MaxResults == 3
MaxScores == 3
MaxBins == 3

-----------------------------------------------------------------------------
(* Python values *)

PyNone == [t |-> "none", v |-> <<>>]
PyStr(s) == [t |-> "str", v |-> s]
PyList(l) == [t |-> "list", v |-> l]

NotCalled == [raised |-> FALSE, exc |-> "not called", value |-> <<>>]
Returned(x) == [raised |-> FALSE, exc |-> "", value |-> x]
Raised(e) == [raised |-> TRUE, exc |-> e, value |-> <<>>]

Digits == {"0", "1", "2", "3", "4", "5", "6", "7", "8", "9"}

DigitVal(c) ==
    CASE c = "0" -> 0 [] c = "1" -> 1 [] c = "2" -> 2 [] c = "3" -> 3
      [] c = "4" -> 4 [] c = "5" -> 5 [] c = "6" -> 6 [] c = "7" -> 7
      [] c = "8" -> 8 [] c = "9" -> 9

DigitChar(n) ==
    CASE n = 0 -> "0" [] n = 1 -> "1" [] n = 2 -> "2" [] n = 3 -> "3"
      [] n = 4 -> "4" [] n = 5 -> "5" [] n = 6 -> "6" [] n = 7 -> "7"
      [] n = 8 -> "8" [] n = 9 -> "9"

RECURSIVE DigitsVal(_)
DigitsVal(s) ==
    IF Len(s) = 0 THEN 0
    ELSE 10 * DigitsVal(SubSeq(s, 1, Len(s) - 1)) + DigitVal(s[Len(s)])

\* int(s): an optional sign and at least one decimal digit, else ValueError
int(s) ==
    LET signed == Len(s) > 0 /\ s[1] \in {"-", "+"}
        body == IF signed THEN Tail(s) ELSE s
    IN  IF Len(body) = 0 \/ \E i \in 1..Len(body) : body[i] \notin Digits
        THEN [ok |-> FALSE, val |-> 0]
        ELSE [ok |-> TRUE,
              val |-> IF signed /\ s[1] = "-" THEN 0 - DigitsVal(body)
                      ELSE DigitsVal(body)]

\* str(n) of a non-negative integer
RECURSIVE str(_)
str(n) ==
    IF n < 10 THEN <<DigitChar(n)>>
    ELSE Append(str(n \div 10), DigitChar(n % 10))

\* s.replace('Q', '')
replaceQ(s) == SelectSeq(s, LAMBDA c : c # "Q")

UpperChar(c) ==
    CASE c = "a" -> "A" [] c = "b" -> "B" [] c = "c" -> "C" [] c = "d" -> "D"
      [] OTHER -> c

\* s.upper()
upper(s) == [i \in 1..Len(s) |-> UpperChar(s[i])]

\* seq[i] with Python's indexing: 0-based, negative indices count from the end
PyIndex(seq, i) ==
    IF 0 <= i /\ i < Len(seq) THEN [ok |-> TRUE, val |-> seq[i + 1]]
    ELSE IF 0 - Len(seq) <= i /\ i < 0
         THEN [ok |-> TRUE, val |-> seq[Len(seq) + i + 1]]
         ELSE [ok |-> FALSE, val |-> ""]

RECURSIVE Gcd(_, _)
Gcd(a, b) == IF b = 0 THEN a ELSE Gcd(b, a % b)

\* exact rationals, in lowest terms, for the floats the scorers compute
Rat(n, d) ==
    LET g == Gcd(IF n < 0 THEN 0 - n ELSE n, d)
    IN [n |-> n \div g, d |-> d \div g]
RatAdd(a, b) == Rat(a.n * b.d + b.n * a.d, a.d * b.d)
RatEq(a, b) == a.n * b.d = b.n * a.d
RatLeq(a, b) == a.n * b.d <= b.n * a.d

RECURSIVE RatSum(_)
RatSum(s) == IF Len(s) = 0 THEN Rat(0, 1) ELSE RatAdd(s[1], RatSum(Tail(s)))

-----------------------------------------------------------------------------
(* OMRProcessor.__init__: subject_config *)

subjects == <<"Mathematics", "Physics", "Chemistry", "Biology", "English">>
questions_per_subject == 20
total_questions == 100
SubjectMax == 20

SubjectNames == {subjects[i] : i \in 1..Len(subjects)}

-----------------------------------------------------------------------------
(* OMRProcessor.calculate_subject_scores *)

\* lines 60-78: the scores dict before the loop
InitialScores ==
    [subject_scores |-> [s \in SubjectNames |-> Rat(0, 1)],
     total_score |-> Rat(0, 1),
     correct_answers |-> 0,
     total_questions |-> 0,
     subject_breakdown |->
        [s \in SubjectNames |->
            [correct |-> 0, total |-> questions_per_subject,
             percentage |-> Rat(0, 1)]]]

\* is_correct with the comparison made case-sensitive
IsCorrect_CaseSensitive(student_answer, correct_answer) ==
    IF student_answer.t = "list" THEN FALSE
    ELSE IF student_answer.t = "none" THEN FALSE
    ELSE student_answer.v = correct_answer

\* the None test inverted: a blank answer counts as correct
IsCorrect_BlankCounts(student_answer, correct_answer) ==
    IF student_answer.t = "list" THEN FALSE
    ELSE IF student_answer.t = "none" THEN TRUE
    ELSE upper(student_answer.v) = upper(correct_answer)

\* lines 104-111: is_correct
IsCorrect(student_answer, correct_answer) ==
    IF student_answer.t = "list" THEN FALSE
    ELSE IF student_answer.t = "none" THEN FALSE
    ELSE upper(student_answer.v) = upper(correct_answer)

\* the subject index computed without the - 1
SubjectIndex_OffByOne(question_num) == question_num \div questions_per_subject

\* line 92
SubjectIndex(question_num) == (question_num - 1) \div questions_per_subject

\* lines 84-116: one iteration of the loop over student_answers.items();
\* acc carries the scores dict, total_correct, total_questions and the
\* exception that ended the loop, if any
ScoreItem(acc, question_key, student_answer, key) ==
    IF acc.exc # "" THEN acc
    ELSE IF question_key \notin DOMAIN key THEN acc
    ELSE
      LET parsed == int(replaceQ(question_key))
      IN IF ~parsed.ok THEN [acc EXCEPT !.exc = "ValueError"]
         ELSE
           LET subject_index == SubjectIndex(parsed.val)
           IN IF subject_index >= Len(subjects) THEN acc
              ELSE
                LET looked == PyIndex(subjects, subject_index)
                    subject == looked.val
                IN IF ~looked.ok THEN [acc EXCEPT !.exc = "IndexError"]
                   ELSE
                     LET a1 == [acc EXCEPT
                                  !.total_questions = @ + 1,
                                  !.scores.subject_breakdown[subject].total =
                                      questions_per_subject]
                     IN IF IsCorrect(student_answer, key[question_key])
                        THEN [a1 EXCEPT
                                !.scores.subject_scores[subject] =
                                    RatAdd(@, Rat(1, 1)),
                                !.scores.subject_breakdown[subject].correct =
                                    @ + 1,
                                !.total_correct = @ + 1]
                        ELSE a1

\* the loop leaving at the first question it skips (break for continue)
RECURSIVE ScoreLoop_BreakOnSkip(_, _, _)
ScoreLoop_BreakOnSkip(acc, items, key) ==
    IF Len(items) = 0 THEN acc
    ELSE LET next == ScoreItem(acc, items[1][1], items[1][2], key)
         IN IF next = acc THEN acc
            ELSE ScoreLoop_BreakOnSkip(next, Tail(items), key)

\* the loop body applied to the items lo..hi in turn, up to the first
\* exception
RECURSIVE ScoreRange(_, _, _, _, _)
ScoreRange(acc, items, lo, hi, key) ==
    IF lo > hi THEN acc
    ELSE IF lo = hi THEN ScoreItem(acc, items[lo][1], items[lo][2], key)
    ELSE LET mid == (lo + hi) \div 2
             first == ScoreRange(acc, items, lo, mid, key)
         IN IF first.exc # "" THEN first
            ELSE ScoreRange(first, items, mid + 1, hi, key)

\* lines 84-116: the loop over student_answers.items()
ScoreLoop(acc, items, key) == ScoreRange(acc, items, 1, Len(items), key)

\* the final loop with the subject score left on the percentage scale
Finalize_PercentAsScore(sc) ==
    [sc EXCEPT
        !.subject_breakdown =
            [s \in SubjectNames |->
                IF sc.subject_breakdown[s].total > 0
                THEN [sc.subject_breakdown[s] EXCEPT
                        !.percentage = Rat(sc.subject_breakdown[s].correct * 100,
                                           sc.subject_breakdown[s].total)]
                ELSE sc.subject_breakdown[s]],
        !.subject_scores =
            [s \in SubjectNames |->
                IF sc.subject_breakdown[s].total > 0
                THEN Rat(sc.subject_breakdown[s].correct * 100,
                         sc.subject_breakdown[s].total)
                ELSE sc.subject_scores[s]]]

\* lines 119-124: percentages and the 20-point scale, subject by subject
Finalize(sc) ==
    [sc EXCEPT
        !.subject_breakdown =
            [s \in SubjectNames |->
                IF sc.subject_breakdown[s].total > 0
                THEN [sc.subject_breakdown[s] EXCEPT
                        !.percentage = Rat(sc.subject_breakdown[s].correct * 100,
                                           sc.subject_breakdown[s].total)]
                ELSE sc.subject_breakdown[s]],
        !.subject_scores =
            [s \in SubjectNames |->
                IF sc.subject_breakdown[s].total > 0
                THEN Rat(sc.subject_breakdown[s].correct * SubjectMax,
                         sc.subject_breakdown[s].total)
                ELSE sc.subject_scores[s]]]

\* the total taken as the mean of the subject scores
TotalScore_Mean(sc) ==
    LET sum == RatSum([i \in 1..Len(subjects) |-> sc.subject_scores[subjects[i]]])
    IN Rat(sum.n, sum.d * Len(subjects))

\* line 128: sum(scores["subject_scores"].values())
TotalScore(sc) == RatSum([i \in 1..Len(subjects) |-> sc.subject_scores[subjects[i]]])

\* lines 57-130
calculate_subject_scores(items, key) ==
    LET acc == ScoreLoop([scores |-> InitialScores, total_correct |-> 0,
                          total_questions |-> 0, exc |-> ""], items, key)
        fin == Finalize(acc.scores)
        out == [fin EXCEPT !.correct_answers = acc.total_correct,
                           !.total_questions = acc.total_questions]
    IN IF acc.exc # "" THEN Raised(acc.exc)
       ELSE Returned([out EXCEPT !.total_score = TotalScore(out)])

-----------------------------------------------------------------------------
(* utils.calculate_subject_scores *)

\* key in student_answers, for the items of a dict
HasKey(items, k) == \E i \in 1..Len(items) : items[i][1] = k

\* student_answers[key]
Lookup(items, k) == items[CHOOSE i \in 1..Len(items) : items[i][1] = k][2]

\* line 205: student_answers[q_str] == correct_answers[q_str], Python's ==
\* between an AnswerMap value and the key's str
PyEq(student_answer, correct_answer) ==
    student_answer.t = "str" /\ student_answer.v = correct_answer

\* lines 201-206: the questions of one subject that are counted / correct
UtilsCounted(items, key, i, k) ==
    {q_num \in (i * k + 1)..((i + 1) * k) :
        HasKey(items, str(q_num)) /\ str(q_num) \in DOMAIN key}

UtilsCorrect(items, key, i, k) ==
    {q_num \in UtilsCounted(items, key, i, k) :
        PyEq(Lookup(items, str(q_num)), key[str(q_num)])}

\* lines 194-215: the loop over enumerate(subjects) from index i on; the
\* result lists, subject by subject, correct_count and subject_total
RECURSIVE UtilsSubjects(_, _, _, _, _)
UtilsSubjects(items, key, subj, k, i) ==
    IF i >= Len(subj) THEN <<>>
    ELSE << [subject |-> subj[i + 1],
             score |-> Cardinality(UtilsCorrect(items, key, i, k)),
             total |-> Cardinality(UtilsCounted(items, key, i, k))] >>
         \o UtilsSubjects(items, key, subj, k, i + 1)

RECURSIVE SumField(_, _)
SumField(rows, f) ==
    IF Len(rows) = 0 THEN 0 ELSE rows[1][f] + SumField(Tail(rows), f)

\* lines 181-224
utils_calculate_subject_scores(items, key, subj, k) ==
    LET rows == UtilsSubjects(items, key, subj, k, 0)
        row(s) == rows[CHOOSE j \in 1..Len(rows) : rows[j].subject = s]
        total_correct == SumField(rows, "score")
        total_q == SumField(rows, "total")
    IN Returned(
        [subject_scores |->
            [s \in {subj[j] : j \in 1..Len(subj)} |->
                [score |-> row(s).score,
                 total |-> row(s).total,
                 percentage |-> IF row(s).total > 0
                                THEN Rat(row(s).score * 100, row(s).total)
                                ELSE Rat(0, 1)]],
         total_score |-> total_correct,
         total_questions |-> total_q,
         overall_percentage |-> IF total_q > 0
                                THEN Rat(total_correct * 100, total_q)
                                ELSE Rat(0, 1)])

-----------------------------------------------------------------------------
(* OMRProcessor.create_overlay_image *)

\* An image is [pixels, gray]; an overlay is the colour copy of an image
\* with the drawing calls made on it, in order.  A dict is a function on
\* its keys: a bubble record lacking "bubble" has no such field.

options_per_question == 4

\* lines 137-140
OverlayBase(image) == [pixels |-> image.pixels, annotations |-> <<>>]

\* a style that takes a bubble without a classification for an unfilled one
BubbleStyle_OutOfRangeAsUnfilled(bubble_index, classifications) ==
    IF bubble_index < Len(classifications) /\ classifications[bubble_index + 1]
    THEN [color |-> <<0, 255, 0>>, thickness |-> 3]
    ELSE [color |-> <<255, 0, 0>>, thickness |-> 1]

\* lines 164-176: colour and thickness of one bubble's outline
BubbleStyle(bubble_index, classifications) ==
    IF bubble_index < Len(classifications)
    THEN IF classifications[bubble_index + 1]
         THEN [color |-> <<0, 255, 0>>, thickness |-> 3]
         ELSE [color |-> <<255, 0, 0>>, thickness |-> 1]
    ELSE [color |-> <<128, 128, 128>>, thickness |-> 1]

\* lines 160-184: one iteration of the loop over a question's bubbles; acc
\* carries the drawing calls made so far, question_num and the exception that
\* ended the rendering, if any
DrawBubble(acc, bubble_info, classifications) ==
    IF acc.exc # "" THEN acc
    ELSE IF "bubble" \notin DOMAIN bubble_info \/ "index" \notin DOMAIN bubble_info
    THEN [acc EXCEPT !.exc = "KeyError"]
    ELSE
      LET bubble == bubble_info.bubble
          style == BubbleStyle(bubble_info.index, classifications)
      IN IF Len(bubble) = 3
         THEN [acc EXCEPT !.annotations = Append(@,
                  [op |-> "circle", at |-> <<bubble[1], bubble[2]>>,
                   size |-> <<bubble[3]>>,
                   color |-> style.color, thickness |-> style.thickness])]
         ELSE IF Len(bubble) # 4 THEN [acc EXCEPT !.exc = "ValueError"]
         ELSE [acc EXCEPT !.annotations = Append(@,
                  [op |-> "rectangle", at |-> <<bubble[1], bubble[2]>>,
                   size |-> <<bubble[1] + bubble[3], bubble[2] + bubble[4]>>,
                   color |-> style.color, thickness |-> style.thickness])]

RECURSIVE DrawBubbles(_, _, _)
DrawBubbles(acc, question_bubbles, classifications) ==
    IF Len(question_bubbles) = 0 THEN acc
    ELSE DrawBubbles(DrawBubble(acc, question_bubbles[1], classifications),
                     Tail(question_bubbles), classifications)

\* lines 187-195: the question number label at the group's first bubble
DrawLabel(acc, question_bubbles) ==
    IF acc.exc # "" \/ Len(question_bubbles) = 0 THEN acc
    ELSE
      LET first_bubble == question_bubbles[1].bubble
          label == IF Len(first_bubble) = 3
                   THEN <<first_bubble[1] - 30, first_bubble[2]>>
                   ELSE <<first_bubble[1] - 30,
                          first_bubble[2] + (first_bubble[4] \div 2)>>
      IN [acc EXCEPT !.annotations = Append(@,
              [op |-> "putText", at |-> label, size |-> <<acc.question_num>>,
               color |-> <<0, 0, 255>>, thickness |-> 1])]

\* a renderer that also counts a trailing short group as a question
RECURSIVE DrawRow_CountsShortGroups(_, _, _, _)
DrawRow_CountsShortGroups(acc, row, i, classifications) ==
    IF acc.exc # "" \/ i >= Len(row) THEN acc
    ELSE
      LET last == IF i + options_per_question <= Len(row)
                  THEN i + options_per_question ELSE Len(row)
          question_bubbles == SubSeq(row, i + 1, last)
      IN IF Len(question_bubbles) < options_per_question
         THEN DrawRow_CountsShortGroups(
                  [acc EXCEPT !.question_num = @ + 1],
                  row, i + options_per_question, classifications)
         ELSE
           LET drawn == DrawLabel(
                   DrawBubbles(acc, question_bubbles, classifications),
                   question_bubbles)
               next == IF drawn.exc # "" THEN drawn
                       ELSE [drawn EXCEPT !.question_num = @ + 1]
           IN DrawRow_CountsShortGroups(next, row, i + options_per_question,
                                        classifications)

\* lines 153-197: the groups of one row from 0-based position i on
RECURSIVE DrawRow(_, _, _, _)
DrawRow(acc, row, i, classifications) ==
    IF acc.exc # "" \/ i >= Len(row) THEN acc
    ELSE
      LET last == IF i + options_per_question <= Len(row)
                  THEN i + options_per_question ELSE Len(row)
          question_bubbles == SubSeq(row, i + 1, last)
      IN IF Len(question_bubbles) < options_per_question
         THEN DrawRow(acc, row, i + options_per_question, classifications)
         ELSE
           LET drawn == DrawLabel(
                   DrawBubbles(acc, question_bubbles, classifications),
                   question_bubbles)
               next == IF drawn.exc # "" THEN drawn
                       ELSE [drawn EXCEPT !.question_num = @ + 1]
           IN DrawRow(next, row, i + options_per_question, classifications)

RECURSIVE DrawRows(_, _, _)
DrawRows(acc, rows, classifications) ==
    IF Len(rows) = 0 THEN acc
    ELSE DrawRows(DrawRow(acc, rows[1], 0, classifications),
                  Tail(rows), classifications)

\* bubble_results.get("grid_structure") is falsy: no such key, None or {}
NoGridStructure(detection) ==
    \/ "grid_structure" \notin DOMAIN detection
    \/ detection.grid_structure = PyNone
    \/ DOMAIN detection.grid_structure = {}

\* lines 132-203.  image is PyNone when there is no image to draw on
create_overlay_image(image, detection) ==
    IF image = PyNone THEN Raised("AttributeError")
    ELSE IF NoGridStructure(detection)
    THEN Returned(OverlayBase(image))
    ELSE IF "rows" \notin DOMAIN detection.grid_structure
    THEN Raised("KeyError")
    ELSE IF Len(detection.grid_structure.rows) = 0
    THEN Returned(OverlayBase(image))
    ELSE IF "classifications" \notin DOMAIN detection
    THEN Returned(OverlayBase(image))
    ELSE
      LET acc == DrawRows([annotations |-> <<>>, question_num |-> 1, exc |-> ""],
                          detection.grid_structure.rows,
                          detection.classifications)
      IN Returned([pixels |-> image.pixels, annotations |-> acc.annotations])

-----------------------------------------------------------------------------
(* The arguments the scorers are applied to *)

\* question identifiers: the plain and the Q-prefixed form of question 1,
\* the boundaries of the subject ranges, numbers outside 1..100 and an
\* identifier that is no number
QuestionKeys ==
    << <<"1">>, <<"Q", "1">>, <<"2", "0">>, <<"2", "1">>,
       <<"1", "0", "0">>, <<"1", "0", "1">>, <<"0">>,
       <<"-", "1", "0", "0">>, <<"Q">> >>

AnswerValues ==
    {PyStr(<<"A">>), PyStr(<<"b">>), PyNone, PyList(<<"A", "B">>)}

KeyLetters == {<<"A">>, <<"B">>}

NoEntry == <<>>

RECURSIVE SortedSeq(_)
SortedSeq(S) ==
    IF S = {} THEN <<>>
    ELSE LET m == CHOOSE x \in S : \A y \in S : x <= y
         IN <<m>> \o SortedSeq(S \ {m})

\* the dict with the entries QuestionKeys[i] -> f[i], inserted by increasing i
ItemsOf(f) ==
    LET order == SortedSeq(DOMAIN f)
    IN [j \in 1..Len(order) |-> <<QuestionKeys[order[j]], f[order[j]]>>]

\* the key with the entries QuestionKeys[i] -> g[i] for the i with a letter
KeyOf(g) ==
    LET D == {i \in DOMAIN g : g[i] # NoEntry}
    IN [k \in {QuestionKeys[i] : i \in D} |->
            g[CHOOSE i \in D : QuestionKeys[i] = k]]

\* the variables of the other specifications, at rest
ScorerUnused ==
    /\ student_answers = <<>>
    /\ correct_answers = <<>>
    /\ scores = NotCalled
    /\ utils_scores = NotCalled
    /\ called = "none"

OverlayUnused ==
    /\ original_image = PyNone
    /\ overlay_input = <<>>
    /\ overlay_output = NotCalled

UtilsUnused ==
    /\ util_call = <<>>
    /\ util_result = NotCalled

\* OMRProcessor.__init__ (line 22), no call in progress
PipelineUnused ==
    /\ answer_keys = <<>>
    /\ image_paths = <<>>
    /\ sheet_versions = PyNone
    /\ student_ids = PyNone
    /\ batch_i = 0
    /\ batch_results = <<>>
    /\ batch_pc = "idle"
    /\ pc = "none"
    /\ image_path = <<>>
    /\ sheet_version = PyNone
    /\ results = <<>>
    /\ bubble_results = <<>>
    /\ answer_mapping = <<>>
    /\ calls = <<>>
    /\ files = <<>>

ScoreInit ==
    /\ \E D \in SUBSET (1..Len(QuestionKeys)) :
          /\ Cardinality(D) <= MaxAnswers
          /\ \E f \in [D -> AnswerValues], g \in [D -> KeyLetters \cup {NoEntry}] :
                /\ student_answers = ItemsOf(f)
                /\ correct_answers = KeyOf(g)
    /\ scores = NotCalled
    /\ utils_scores = NotCalled
    /\ called = "none"
    /\ OverlayUnused
    /\ PipelineUnused
    /\ UtilsUnused

CallScorer ==
    /\ called = "none"
    /\ scores' = calculate_subject_scores(student_answers, correct_answers)
    /\ called' = "omr"
    /\ UNCHANGED <<student_answers, correct_answers, utils_scores>>
    /\ UNCHANGED <<overlay_vars, pipeline_vars, utils_vars>>

CallUtilsScorer ==
    /\ called = "none"
    /\ utils_scores' = utils_calculate_subject_scores(
                           student_answers, correct_answers,
                           subjects, questions_per_subject)
    /\ called' = "utils"
    /\ UNCHANGED <<student_answers, correct_answers, scores>>
    /\ UNCHANGED <<overlay_vars, pipeline_vars, utils_vars>>

ScoreNext == CallScorer \/ CallUtilsScorer

ScoreSpec == ScoreInit /\ [][ScoreNext]_vars

-----------------------------------------------------------------------------
(* The arguments create_overlay_image is applied to *)

RowLens == {0, 3, 4, 5, 8}

RECURSIVE SumLens(_)
SumLens(lens) == IF Len(lens) = 0 THEN 0 ELSE lens[1] + SumLens(Tail(lens))

\* the record of the bubble with flattened index n, at row r and column c;
\* kind says whether and how the record is malformed
BubbleInfo(n, r, c, shape, kind) ==
    LET bubble == IF shape = "circle"
                  THEN <<100 + 40 * c, 50 + 30 * r, 10>>
                  ELSE <<90 + 40 * c, 40 + 30 * r, 20, 20>>
    IN CASE kind = "good" -> [bubble |-> bubble, index |-> n]
         [] kind = "no_bubble" -> [index |-> n]
         [] kind = "no_index" -> [bubble |-> bubble]
         [] kind = "short" -> [bubble |-> <<bubble[1], bubble[2]>>, index |-> n]

\* rows of the given lengths, bubbles indexed in flattened order; the bubble
\* with index bad (if any) is malformed in the given way
GridRows(lens, shape, bad, kind) ==
    [r \in 1..Len(lens) |->
        [c \in 1..lens[r] |->
            LET n == SumLens(SubSeq(lens, 1, r - 1)) + c - 1
            IN BubbleInfo(n, r - 1, c - 1, shape,
                          IF n = bad THEN kind ELSE "good")]]

\* classification lists for n bubbles: none filled, every third filled, and
\* a list that ends after two bubbles
ClassificationLists(n) ==
    { [j \in 1..n |-> FALSE],
      [j \in 1..n |-> (j - 1) % 3 = 0],
      [j \in 1..(IF n < 2 THEN n ELSE 2) |-> j = 1] }

\* the places of a malformed record among n bubbles: the first, the second
\* and the last bubble
BadPositions(n) == {0, 1, n - 1} \cap (0..(n - 1))

RowLengthLists == UNION {[1..m -> RowLens] : m \in 0..MaxRows}

OverlayInputs ==
    {[classifications |-> <<>>],
     [grid_structure |-> PyNone, classifications |-> <<>>],
     [grid_structure |-> <<>>, classifications |-> <<>>],
     [grid_structure |-> [columns |-> 4], classifications |-> <<>>]}
    \cup
    UNION {
      UNION {
        {[grid_structure |-> [rows |-> GridRows(lens, shape, bad[1], bad[2])]]}
        \cup
        {[grid_structure |-> [rows |-> GridRows(lens, shape, bad[1], bad[2])],
          classifications |-> cl] : cl \in ClassificationLists(SumLens(lens))}
        : bad \in {<<0 - 1, "good">>}
                  \cup (BadPositions(SumLens(lens))
                        \X {"no_bubble", "no_index", "short"}),
          shape \in {"circle", "rectangle"}}
      : lens \in RowLengthLists}

Images == {[pixels |-> "sheet", gray |-> TRUE], [pixels |-> "sheet", gray |-> FALSE]}

OverlayInit ==
    /\ original_image \in Images
    /\ overlay_input \in OverlayInputs
    /\ overlay_output = NotCalled
    /\ ScorerUnused
    /\ PipelineUnused
    /\ UtilsUnused

RenderOverlay ==
    /\ overlay_output = NotCalled
    /\ overlay_output' = create_overlay_image(original_image, overlay_input)
    /\ UNCHANGED <<original_image, overlay_input>>
    /\ UNCHANGED <<scorer_vars, pipeline_vars, utils_vars>>

OverlayNext == RenderOverlay

OverlaySpec == OverlayInit /\ [][OverlayNext]_vars

-----------------------------------------------------------------------------
(* The sheets on disk and the components of app/core that process them *)

\* image paths, as the pieces between and including their dots
BadSheet == <<"bad", ".", "jpg">>
EmptySheet == <<"empty", ".", "jpg">>
GoodSheet == <<"good", ".", "jpg">>
GoneSheet == <<"gone", ".", "jpg">>

SheetPaths == {BadSheet, EmptySheet, GoodSheet, GoneSheet}

\* ImageProcessor.preprocess_image raises for a source it cannot decode
Readable(path) == path # BadSheet

\* ImageProcessor.preprocess_image: the diagnostics of a readable sheet
ProcessingInfo(path) == [source |-> path, skew_angle |-> 0]

\* ImageProcessor.load_image: the original image, None when it cannot be
\* read any more at the time of the overlay step
load_image(path) ==
    IF path = GoneSheet \/ ~Readable(path) THEN PyNone
    ELSE [pixels |-> path, gray |-> FALSE]

\* BubbleDetector.detect_and_classify_bubbles: a sheet with three questions
\* (A marked; B and C marked; nothing marked), or no bubble at all
detect_and_classify_bubbles(path) ==
    IF path = EmptySheet
    THEN [bubbles_detected |-> 0,
          grid_structure |-> [rows |-> <<>>],
          classifications |-> <<>>,
          confidence_scores |-> <<>>]
    ELSE [bubbles_detected |-> 12,
          grid_structure |-> [rows |-> GridRows(<<8, 4>>, "circle", 0 - 1, "good")],
          classifications |->
              [j \in 1..12 |-> j \in {1, 6, 7}],
          confidence_scores |->
              [j \in 1..12 |-> IF j = 6 THEN Rat(6, 10) ELSE Rat(9, 10)]]

Letters == <<"A", "B", "C", "D">>

\* the letters of the filled bubbles of one group, in A-D order
RECURSIVE FilledLetters(_, _, _)
FilledLetters(question_bubbles, classifications, n) ==
    IF n > Len(question_bubbles) THEN <<>>
    ELSE (IF question_bubbles[n].index < Len(classifications)
             /\ classifications[question_bubbles[n].index + 1]
          THEN <<Letters[n]>> ELSE <<>>)
         \o FilledLetters(question_bubbles, classifications, n + 1)

\* a mapper that keeps the first of several filled letters
MapGroup_GuessesFirst(acc, question_bubbles, classifications) ==
    LET filled == FilledLetters(question_bubbles, classifications, 1)
        q == str(acc.question_num)
        answer == IF Len(filled) = 0 THEN PyNone ELSE PyStr(<<filled[1]>>)
        flags == IF Len(filled) = 1 THEN <<>>
                 ELSE IF Len(filled) = 0
                 THEN <<[question |-> q, issue |-> "no_mark"]>>
                 ELSE <<[question |-> q, issue |-> "multiple_marks"]>>
    IN [answers |-> Append(acc.answers, <<q, answer>>),
        flagged_questions |-> acc.flagged_questions \o flags,
        question_num |-> acc.question_num + 1]

\* the mapper's resolution of one group: one letter, None or a list
MapGroup(acc, question_bubbles, classifications) ==
    LET filled == FilledLetters(question_bubbles, classifications, 1)
        q == str(acc.question_num)
        answer == IF Len(filled) = 1 THEN PyStr(filled)
                  ELSE IF Len(filled) = 0 THEN PyNone
                  ELSE PyList(filled)
        flags == IF Len(filled) = 1 THEN <<>>
                 ELSE IF Len(filled) = 0
                 THEN <<[question |-> q, issue |-> "no_mark"]>>
                 ELSE <<[question |-> q, issue |-> "multiple_marks"]>>
    IN [answers |-> Append(acc.answers, <<q, answer>>),
        flagged_questions |-> acc.flagged_questions \o flags,
        question_num |-> acc.question_num + 1]

RECURSIVE MapRow(_, _, _, _)
MapRow(acc, row, n, classifications) ==
    IF n + options_per_question > Len(row) THEN acc
    ELSE MapRow(MapGroup(acc, SubSeq(row, n + 1, n + options_per_question),
                         classifications),
                row, n + options_per_question, classifications)

RECURSIVE MapRows(_, _, _)
MapRows(acc, rows, classifications) ==
    IF Len(rows) = 0 THEN acc
    ELSE MapRows(MapRow(acc, rows[1], 0, classifications),
                 Tail(rows), classifications)

\* BubbleDetector.map_bubbles_to_answers
map_bubbles_to_answers(grid_structure, classifications) ==
    LET acc == MapRows([answers |-> <<>>, flagged_questions |-> <<>>,
                        question_num |-> 1],
                       grid_structure.rows, classifications)
    IN [answers |-> acc.answers, flagged_questions |-> acc.flagged_questions]

-----------------------------------------------------------------------------
(* OMRProcessor: answer keys, process_omr_sheet, batch_process_omr_sheets *)

VersionA == <<"A">>
VersionZ == <<"Z">>

\* the answer key of the three-question sheet
SheetKey == (<<"1">> :> <<"A">>) @@ (<<"2">> :> <<"B">>) @@ (<<"3">> :> <<"C">>)

\* the content of an answer key file: keys for the versions A and B
KeyFile == (VersionA :> SheetKey) @@ (<<"B">> :> SheetKey)

\* line 55
detect_sheet_version == VersionA

\* s.replace('.', tag + '.'): the tag goes before every dot
RECURSIVE ReplaceDots(_, _)
ReplaceDots(path, tag) ==
    IF Len(path) = 0 THEN <<>>
    ELSE (IF path[1] = "." THEN <<tag, ".">> ELSE <<path[1]>>)
         \o ReplaceDots(Tail(path), tag)

\* lines 208-225 (the timestamp is left out)
InitialResults(path, version, student_id) ==
    [success |-> FALSE,
     student_id |-> student_id,
     sheet_version |-> version,
     processing_info |-> <<>>,
     bubble_detection |-> <<>>,
     student_answers |-> <<>>,
     scores |-> <<>>,
     flagged_questions |-> <<>>,
     confidence_metrics |-> <<>>,
     file_paths |-> [original |-> path, processed |-> PyNone, overlay |-> PyNone],
     error_message |-> PyNone]

\* an except clause that reports the failure on a fresh results dict
Handler_DropsPartial(res, e) ==
    [InitialResults(res.file_paths.original, res.sheet_version, res.student_id)
        EXCEPT !.error_message = PyStr(<<"Error processing OMR sheet: ", e>>)]

\* an except clause that only logs the failure
Handler_LogsOnly(res, e) == [res EXCEPT !.success = FALSE]

\* lines 303-307: the except clause
Handler(res, e) ==
    [res EXCEPT !.error_message = PyStr(<<"Error processing OMR sheet: ", e>>),
                !.success = FALSE]

\* line 274
MissingKeyPayload(version) == [error |-> <<"No answer key for version ", version>>]

\* lines 277-284
ConfidenceMetrics(confidence_scores) ==
    IF Len(confidence_scores) = 0 THEN <<>>
    ELSE
      LET total == RatSum(confidence_scores)
          idx == 1..Len(confidence_scores)
      IN [average_confidence |-> Rat(total.n, total.d * Len(confidence_scores)),
          min_confidence |->
              confidence_scores[CHOOSE j \in idx : \A k \in idx :
                  RatLeq(confidence_scores[j], confidence_scores[k])],
          max_confidence |->
              confidence_scores[CHOOSE j \in idx : \A k \in idx :
                  RatLeq(confidence_scores[k], confidence_scores[j])],
          low_confidence_count |->
              Cardinality({j \in idx :
                  ~RatLeq(Rat(7, 10), confidence_scores[j])})]

\* the list argument read at its first element whatever the sheet
ListArg_FirstElement(list, n) ==
    IF list # PyNone /\ Len(list.v) # 0 THEN list.v[1] ELSE PyNone

\* element i (0-based) of an optional list argument: lines 318-319
ListArg(list, n) ==
    IF list # PyNone /\ Len(list.v) # 0 /\ n < Len(list.v) THEN list.v[n + 1]
    ELSE PyNone

\* the optional list arguments of a batch: None, an empty list, a list
\* shorter than the batch and lists of two elements
VersionLists ==
    {PyNone, PyList(<<>>),
     PyList(<<PyStr(VersionA)>>), PyList(<<PyStr(VersionZ)>>),
     PyList(<<PyStr(VersionA), PyStr(VersionZ)>>),
     PyList(<<PyStr(VersionZ), PyStr(VersionA)>>)}

StudentIdLists ==
    {PyNone, PyList(<<PyStr(<<"S", "1">>)>>),
     PyList(<<PyStr(<<"S", "1">>), PyStr(<<"S", "2">>)>>)}

PathLists == UNION {[1..m -> SheetPaths] : m \in 0..MaxSheets}

Init ==
    /\ PipelineUnused
    /\ ScorerUnused
    /\ OverlayUnused
    /\ UtilsUnused

\* lines 33-36
SetAnswerKey(version, key) ==
    /\ batch_pc = "idle"
    /\ answer_keys' = (version :> key) @@ answer_keys
    /\ UNCHANGED <<batch_vars, sheet_vars, files>>

\* lines 38-46: the file's content replaces the table; a file that cannot be
\* read raises and leaves the table as it was
LoadAnswerKeys(content) ==
    /\ batch_pc = "idle"
    /\ answer_keys' = IF content = PyNone THEN answer_keys ELSE content
    /\ UNCHANGED <<batch_vars, sheet_vars, files>>

\* lines 311-315: a call of batch_process_omr_sheets
BatchStart(paths, versions, ids) ==
    /\ batch_pc = "idle"
    /\ image_paths' = paths
    /\ sheet_versions' = versions
    /\ student_ids' = ids
    /\ batch_i' = 0
    /\ batch_results' = <<>>
    /\ batch_pc' = "loop"
    /\ UNCHANGED <<processor_vars, sheet_vars, files>>

\* the results dict shared between calls: the fields of the sheet before stay
ProcessStart_SharedResults ==
    /\ batch_pc = "loop" /\ pc = "none" /\ batch_i < Len(image_paths)
    /\ image_path' = image_paths[batch_i + 1]
    /\ sheet_version' = ListArg(sheet_versions, batch_i)
    /\ results' =
          IF batch_i = 0
          THEN InitialResults(image_paths[batch_i + 1],
                              ListArg(sheet_versions, batch_i),
                              ListArg(student_ids, batch_i))
          ELSE [results EXCEPT
                  !.success = FALSE,
                  !.student_id = ListArg(student_ids, batch_i),
                  !.sheet_version = ListArg(sheet_versions, batch_i),
                  !.file_paths = [original |-> image_paths[batch_i + 1],
                                  processed |-> PyNone, overlay |-> PyNone],
                  !.error_message = PyNone]
    /\ bubble_results' = <<>>
    /\ answer_mapping' = <<>>
    /\ calls' = <<>>
    /\ pc' = "preprocess"
    /\ UNCHANGED <<processor_vars, batch_vars, files>>

\* lines 317-323 and 208-228: the loop calls process_omr_sheet for sheet i
ProcessStart ==
    /\ batch_pc = "loop" /\ pc = "none" /\ batch_i < Len(image_paths)
    /\ image_path' = image_paths[batch_i + 1]
    /\ sheet_version' = ListArg(sheet_versions, batch_i)
    /\ results' = InitialResults(image_paths[batch_i + 1],
                                 ListArg(sheet_versions, batch_i),
                                 ListArg(student_ids, batch_i))
    /\ bubble_results' = <<>>
    /\ answer_mapping' = <<>>
    /\ calls' = <<>>
    /\ pc' = "preprocess"
    /\ UNCHANGED <<processor_vars, batch_vars, files>>

\* a normalizer failure that does not end the call
Preprocess_ContinuesAfterFailure ==
    /\ pc = "preprocess"
    /\ calls' = Append(calls, "preprocess_image")
    /\ IF Readable(image_path)
       THEN /\ results' = [results EXCEPT
                  !.processing_info = ProcessingInfo(image_path),
                  !.file_paths.processed =
                      PyStr(ReplaceDots(image_path, "_processed"))]
            /\ files' = (ReplaceDots(image_path, "_processed") :>
                            [pixels |-> image_path, annotations |-> <<>>])
                        @@ files
       ELSE /\ results' = Handler(results, "UnreadableImageError")
            /\ UNCHANGED files
    /\ pc' = "version"
    /\ UNCHANGED <<processor_vars, batch_vars, image_path, sheet_version,
                   bubble_results, answer_mapping>>

\* lines 230-238
Preprocess ==
    /\ pc = "preprocess"
    /\ calls' = Append(calls, "preprocess_image")
    /\ IF Readable(image_path)
       THEN /\ results' = [results EXCEPT
                  !.processing_info = ProcessingInfo(image_path),
                  !.file_paths.processed =
                      PyStr(ReplaceDots(image_path, "_processed"))]
            /\ files' = (ReplaceDots(image_path, "_processed") :>
                            [pixels |-> image_path, annotations |-> <<>>])
                        @@ files
            /\ pc' = "version"
       ELSE /\ results' = Handler(results, "UnreadableImageError")
            /\ pc' = "return"
            /\ UNCHANGED files
    /\ UNCHANGED <<processor_vars, batch_vars, image_path, sheet_version,
                   bubble_results, answer_mapping>>

\* a version step that runs the detector whatever version was declared
DetectVersion_AlwaysDetects ==
    /\ pc = "version"
    /\ sheet_version' = PyStr(detect_sheet_version)
    /\ results' = [results EXCEPT !.sheet_version = PyStr(detect_sheet_version)]
    /\ calls' = Append(calls, "detect_sheet_version")
    /\ pc' = "detect"
    /\ UNCHANGED <<processor_vars, batch_vars, image_path, bubble_results,
                   answer_mapping, files>>

\* lines 240-243
DetectVersion ==
    /\ pc = "version"
    /\ IF sheet_version = PyNone
       THEN /\ sheet_version' = PyStr(detect_sheet_version)
            /\ results' = [results EXCEPT
                              !.sheet_version = PyStr(detect_sheet_version)]
            /\ calls' = Append(calls, "detect_sheet_version")
       ELSE UNCHANGED <<sheet_version, results, calls>>
    /\ pc' = "detect"
    /\ UNCHANGED <<processor_vars, batch_vars, image_path, bubble_results,
                   answer_mapping, files>>

\* the detection step without the test for zero bubbles
DetectBubbles_NoZeroCheck ==
    /\ pc = "detect"
    /\ calls' = Append(calls, "detect_and_classify_bubbles")
    /\ bubble_results' = detect_and_classify_bubbles(image_path)
    /\ results' = [results EXCEPT !.bubble_detection = bubble_results']
    /\ pc' = "map"
    /\ UNCHANGED <<processor_vars, batch_vars, image_path, sheet_version,
                   answer_mapping, files>>

\* lines 245-251
DetectBubbles ==
    /\ pc = "detect"
    /\ calls' = Append(calls, "detect_and_classify_bubbles")
    /\ bubble_results' = detect_and_classify_bubbles(image_path)
    /\ IF bubble_results'.bubbles_detected = 0
       THEN /\ results' = Handler(
                  [results EXCEPT !.bubble_detection = bubble_results'],
                  "No bubbles detected in the image")
            /\ pc' = "return"
       ELSE /\ results' = [results EXCEPT !.bubble_detection = bubble_results']
            /\ pc' = "map"
    /\ UNCHANGED <<processor_vars, batch_vars, image_path, sheet_version,
                   answer_mapping, files>>

\* lines 253-261
MapAnswers ==
    /\ pc = "map"
    /\ calls' = Append(calls, "map_bubbles_to_answers")
    /\ answer_mapping' = map_bubbles_to_answers(bubble_results.grid_structure,
                                                bubble_results.classifications)
    /\ results' = [results EXCEPT
          !.student_answers = answer_mapping'.answers,
          !.flagged_questions = answer_mapping'.flagged_questions]
    /\ pc' = "score"
    /\ UNCHANGED <<processor_vars, batch_vars, image_path, sheet_version,
                   bubble_results, files>>

\* the scoring step with the key looked up without the membership test
Score_MissingKeyRaises ==
    /\ pc = "score"
    /\ IF sheet_version.v \in DOMAIN answer_keys
       THEN LET out == calculate_subject_scores(answer_mapping.answers,
                                                answer_keys[sheet_version.v])
            IN /\ calls' = Append(calls, "calculate_subject_scores")
               /\ IF out.raised
                  THEN /\ results' = Handler(results, out.exc)
                       /\ pc' = "return"
                  ELSE /\ results' = [results EXCEPT !.scores = out.value]
                       /\ pc' = "confidence"
       ELSE /\ results' = Handler(results, "KeyError")
            /\ pc' = "return"
            /\ UNCHANGED calls
    /\ UNCHANGED <<processor_vars, batch_vars, image_path, sheet_version,
                   bubble_results, answer_mapping, files>>

\* a scoring step that normalises the answers in place: None becomes "" in
\* the dict that results["student_answers"] also refers to
Score_NormalisesInPlace ==
    /\ pc = "score"
    /\ answer_mapping' =
          [answer_mapping EXCEPT !.answers =
              [n \in 1..Len(answer_mapping.answers) |->
                  IF answer_mapping.answers[n][2] = PyNone
                  THEN <<answer_mapping.answers[n][1], PyStr(<<>>)>>
                  ELSE answer_mapping.answers[n]]]
    /\ IF sheet_version.v \in DOMAIN answer_keys
       THEN LET out == calculate_subject_scores(answer_mapping.answers,
                                                answer_keys[sheet_version.v])
            IN /\ calls' = Append(calls, "calculate_subject_scores")
               /\ IF out.raised
                  THEN /\ results' = Handler(
                              [results EXCEPT
                                  !.student_answers = answer_mapping'.answers],
                              out.exc)
                       /\ pc' = "return"
                  ELSE /\ results' = [results EXCEPT
                              !.scores = out.value,
                              !.student_answers = answer_mapping'.answers]
                       /\ pc' = "confidence"
       ELSE /\ results' = [results EXCEPT
                  !.scores = MissingKeyPayload(sheet_version.v)]
            /\ pc' = "confidence"
            /\ UNCHANGED calls
    /\ UNCHANGED <<processor_vars, batch_vars, image_path, sheet_version,
                   bubble_results, files>>

\* lines 263-274
Score ==
    /\ pc = "score"
    /\ IF sheet_version.v \in DOMAIN answer_keys
       THEN LET out == calculate_subject_scores(answer_mapping.answers,
                                                answer_keys[sheet_version.v])
            IN /\ calls' = Append(calls, "calculate_subject_scores")
               /\ IF out.raised
                  THEN /\ results' = Handler(results, out.exc)
                       /\ pc' = "return"
                  ELSE /\ results' = [results EXCEPT !.scores = out.value]
                       /\ pc' = "confidence"
       ELSE /\ results' = [results EXCEPT
                  !.scores = MissingKeyPayload(sheet_version.v)]
            /\ pc' = "confidence"
            /\ UNCHANGED calls
    /\ UNCHANGED <<processor_vars, batch_vars, image_path, sheet_version,
                   bubble_results, answer_mapping, files>>

\* lines 276-284
Confidence ==
    /\ pc = "confidence"
    /\ results' = [results EXCEPT
          !.confidence_metrics =
              IF "confidence_scores" \in DOMAIN bubble_results
              THEN ConfidenceMetrics(bubble_results.confidence_scores)
              ELSE <<>>]
    /\ pc' = "overlay"
    /\ UNCHANGED <<processor_vars, batch_vars, image_path, sheet_version,
                   bubble_results, answer_mapping, calls, files>>

\* lines 286-301
Overlay ==
    /\ pc = "overlay"
    /\ calls' = calls \o <<"load_image", "create_overlay_image">>
    /\ LET out == create_overlay_image(load_image(image_path), bubble_results)
       IN IF out.raised
          THEN /\ results' = Handler(results, out.exc)
               /\ UNCHANGED files
          ELSE /\ results' = [results EXCEPT
                     !.file_paths.overlay =
                         PyStr(ReplaceDots(image_path, "_overlay")),
                     !.success = TRUE]
               /\ files' = (ReplaceDots(image_path, "_overlay") :> out.value)
                           @@ files
    /\ pc' = "return"
    /\ UNCHANGED <<processor_vars, batch_vars, image_path, sheet_version,
                   bubble_results, answer_mapping>>

\* lines 309 and 323-324: process_omr_sheet returns, the batch appends
ProcessReturn ==
    /\ pc = "return"
    /\ batch_results' = Append(batch_results, results)
    /\ batch_i' = batch_i + 1
    /\ pc' = "none"
    /\ UNCHANGED <<processor_vars, image_paths, sheet_versions, student_ids,
                   batch_pc, image_path, sheet_version, results, bubble_results,
                   answer_mapping, calls, files>>

\* line 326
BatchReturn ==
    /\ batch_pc = "loop" /\ pc = "none" /\ batch_i >= Len(image_paths)
    /\ batch_pc' = "returned"
    /\ UNCHANGED <<processor_vars, image_paths, sheet_versions, student_ids,
                   batch_i, batch_results, sheet_vars, files>>

Next ==
    \/ \E version \in {VersionA}, key \in {SheetKey} :
          SetAnswerKey(version, key) /\ UNCHANGED <<scorer_vars, overlay_vars, utils_vars>>
    \/ \E content \in {PyNone, KeyFile} :
          LoadAnswerKeys(content) /\ UNCHANGED <<scorer_vars, overlay_vars, utils_vars>>
    \/ \E paths \in PathLists, versions \in VersionLists, ids \in StudentIdLists :
          BatchStart(paths, versions, ids) /\ UNCHANGED <<scorer_vars, overlay_vars, utils_vars>>
    \/ ProcessStart /\ UNCHANGED <<scorer_vars, overlay_vars, utils_vars>>
    \/ Preprocess /\ UNCHANGED <<scorer_vars, overlay_vars, utils_vars>>
    \/ DetectVersion /\ UNCHANGED <<scorer_vars, overlay_vars, utils_vars>>
    \/ DetectBubbles /\ UNCHANGED <<scorer_vars, overlay_vars, utils_vars>>
    \/ MapAnswers /\ UNCHANGED <<scorer_vars, overlay_vars, utils_vars>>
    \/ Score /\ UNCHANGED <<scorer_vars, overlay_vars, utils_vars>>
    \/ Confidence /\ UNCHANGED <<scorer_vars, overlay_vars, utils_vars>>
    \/ Overlay /\ UNCHANGED <<scorer_vars, overlay_vars, utils_vars>>
    \/ ProcessReturn /\ UNCHANGED <<scorer_vars, overlay_vars, utils_vars>>
    \/ BatchReturn /\ UNCHANGED <<scorer_vars, overlay_vars, utils_vars>>

Spec == Init /\ [][Next]_vars

-----------------------------------------------------------------------------
(* Properties of the scorers (checked under ScoreSpec) *)

\* the entries of the AnswerMap that have an entry in the key
Keyed == {j \in 1..Len(student_answers) :
            student_answers[j][1] \in DOMAIN correct_answers}

\* the question number an identifier stands for ("5" and "Q5" stand for 5)
QuestionNumber(j) == int(replaceQ(student_answers[j][1]))

\* every keyed entry is a question of the sheet: a number in 1..k*|subjects|
AllOnSheet ==
    \A j \in Keyed :
        /\ QuestionNumber(j).ok
        /\ 1 <= QuestionNumber(j).val
        /\ QuestionNumber(j).val <= questions_per_subject * Len(subjects)

SameLetterIgnoringCase(a, b) ==
    \/ a = b
    \/ {a, b} \in {{"a", "A"}, {"b", "B"}, {"c", "C"}, {"d", "D"}}

\* the mapped answer is a single letter equal to the key's letter, ignoring case
SingleLetterMatch(j) ==
    LET answer == student_answers[j][2]
        letter == correct_answers[student_answers[j][1]]
    IN /\ answer.t = "str"
       /\ Len(answer.v) = 1
       /\ Len(letter) = 1
       /\ SameLetterIgnoringCase(answer.v[1], letter[1])

\* the subject (0-based) that owns question q: i*k+1 <= q <= (i+1)*k
OwnerOf(q) ==
    CHOOSE i \in 0..(Len(subjects) - 1) :
        /\ i * questions_per_subject + 1 <= q
        /\ q <= (i + 1) * questions_per_subject

ScorerReturned == called = "omr" /\ ~scores.raised
UtilsReturned == called = "utils" /\ ~utils_scores.raised

\* C1: for an AnswerMap over the sheet's questions, the questions counted
\* correct are exactly those whose answer is a single letter equal to the
\* key's letter ignoring case; null and list answers add nothing to the
\* correct count nor to the total score (no partial credit).
C1_CorrectIffSingleLetterMatch ==
    (ScorerReturned /\ AllOnSheet) =>
        LET matched == {j \in Keyed : SingleLetterMatch(j)}
        IN /\ scores.value.correct_answers = Cardinality(matched)
           /\ RatEq(scores.value.total_score, Rat(Cardinality(matched), 1))

\* a list that contains the key's letter and a lower-case match were scored:
\* only the latter counted
C1_Witness ==
    /\ ScorerReturned /\ AllOnSheet
    /\ \E j \in Keyed :
          /\ student_answers[j][2].t = "list"
          /\ \E n \in 1..Len(student_answers[j][2].v) :
                <<student_answers[j][2].v[n]>> = correct_answers[student_answers[j][1]]
    /\ \E j \in Keyed :
          /\ student_answers[j][2] = PyStr(<<"b">>)
          /\ correct_answers[student_answers[j][1]] = <<"B">>
    /\ scores.value.correct_answers = 1

\* C2: a correct question q in 1..k*|subjects| is credited to the subject i
\* with i*k+1 <= q <= (i+1)*k and to no other, by the processor's scorer and
\* by the scorer of utils (which counts, and credits, the identifiers str(q)).
C2_CreditedToOwningSubject ==
    /\ (ScorerReturned /\ AllOnSheet) =>
          \A i \in 0..(Len(subjects) - 1) :
             scores.value.subject_breakdown[subjects[i + 1]].correct =
                Cardinality({j \in Keyed : /\ SingleLetterMatch(j)
                                           /\ OwnerOf(QuestionNumber(j).val) = i})
    /\ UtilsReturned =>
          \A i \in 0..(Len(subjects) - 1) :
             LET plain == {j \in Keyed :
                             /\ QuestionNumber(j).ok
                             /\ QuestionNumber(j).val \in
                                  1..(questions_per_subject * Len(subjects))
                             /\ student_answers[j][1] = str(QuestionNumber(j).val)
                             /\ OwnerOf(QuestionNumber(j).val) = i}
             IN /\ utils_scores.value.subject_scores[subjects[i + 1]].total =
                      Cardinality(plain)
                /\ utils_scores.value.subject_scores[subjects[i + 1]].score =
                      Cardinality({j \in plain :
                          student_answers[j][2] =
                              PyStr(correct_answers[student_answers[j][1]])})

\* questions 20 and 21 were both answered correctly: one credit for the
\* first subject and one for the second
C2_Witness ==
    /\ ScorerReturned /\ AllOnSheet
    /\ \E j \in Keyed : QuestionNumber(j).val = 20 /\ SingleLetterMatch(j)
    /\ \E j \in Keyed : QuestionNumber(j).val = 21 /\ SingleLetterMatch(j)
    /\ scores.value.subject_breakdown["Mathematics"].correct = 1
    /\ scores.value.subject_breakdown["Physics"].correct = 1

\* the AnswerMap without the entries whose number is outside 1..k*|subjects|
OnSheetOnly ==
    SelectSeq(student_answers,
              LAMBDA item :
                 LET n == int(replaceQ(item[1]))
                 IN n.ok /\ 1 <= n.val
                         /\ n.val <= questions_per_subject * Len(subjects))

\* C3: a question whose number is below 1 or above k*|subjects| is ignored:
\* the scorer returns, without raising, what it returns for the AnswerMap
\* without such questions (same counts, scores and total_questions).
C3_OutOfRangeIgnored ==
    (called = "omr" /\ \A j \in Keyed : QuestionNumber(j).ok) =>
        scores = calculate_subject_scores(OnSheetOnly, correct_answers)

\* C4: every subject's score is correct/total scaled to 20, total being the
\* subject's question count, and total_score is the sum of the scores of all
\* configured subjects.
C4_ScaledScores ==
    ScorerReturned =>
        LET b == scores.value.subject_breakdown
            counts == [i \in 1..Len(subjects) |-> Rat(b[subjects[i]].correct, 1)]
        IN /\ \A s \in SubjectNames :
                /\ b[s].total = questions_per_subject
                /\ scores.value.subject_scores[s].n * b[s].total =
                      20 * b[s].correct * scores.value.subject_scores[s].d
           /\ scores.value.total_score.n * questions_per_subject =
                 20 * RatSum(counts).n * scores.value.total_score.d

\* two subjects have a correct answer and the others none; the total is 2
C4_Witness ==
    /\ ScorerReturned
    /\ scores.value.subject_breakdown["Mathematics"].correct = 1
    /\ scores.value.subject_breakdown["English"].correct = 1
    /\ scores.value.subject_breakdown["Physics"].correct = 0
    /\ RatEq(scores.value.total_score, Rat(2, 1))

-----------------------------------------------------------------------------
(* Properties of process_omr_sheet and batch_process_omr_sheets (checked   *)
(* under Spec)                                                             *)

InCalls(name) == \E n \in 1..Len(calls) : calls[n] = name

\* a process_omr_sheet call is in progress or has just ended
InCall == pc # "none"

\* the call is past its scoring step and the sheet's version has no key
MissingKeyCase ==
    /\ pc \in {"confidence", "overlay", "return"}
    /\ InCalls("map_bubbles_to_answers")
    /\ sheet_version.v \notin DOMAIN answer_keys

\* C5: with no key for the sheet's version the scorer is not run and the
\* scores section is an error payload, while bubble_detection,
\* student_answers and flagged_questions hold the detector's and the mapper's
\* output; the missing key alone does not fail the sheet.
C5_MissingKeyIsErrorPayload ==
    MissingKeyCase =>
        /\ ~InCalls("calculate_subject_scores")
        /\ DOMAIN results.scores = {"error"}
        /\ results.bubble_detection = bubble_results
        /\ bubble_results.bubbles_detected > 0
        /\ results.student_answers = answer_mapping.answers
        /\ Len(results.student_answers) > 0
        /\ results.flagged_questions = answer_mapping.flagged_questions
        /\ pc \in {"confidence", "overlay"} =>
              results.error_message = PyNone
        /\ (pc = "return" /\ load_image(image_path) # PyNone) =>
              results.success

\* a sheet declared as version Z, for which no key is set, ended successfully
C5_Witness ==
    /\ MissingKeyCase
    /\ pc = "return"
    /\ sheet_version = PyStr(VersionZ)
    /\ VersionA \in DOMAIN answer_keys
    /\ results.success

\* element n (1-based) of an optional list argument, None when the list is
\* None or has no such element
Paired(list, n) ==
    IF list = PyNone THEN PyNone
    ELSE IF n <= Len(list.v) THEN list.v[n] ELSE PyNone

\* C6: the batch returns one result per input path, in input order, whether
\* or not sheets fail; result n belongs to image_paths[n] and carries
\* student_ids[n] and sheet_versions[n] when present and None (for the
\* version: None or the detected version) otherwise; a failure is held in
\* the result.
C6_OneResultPerSheet ==
    /\ Len(batch_results) = batch_i
    /\ batch_i <= Len(image_paths)
    /\ batch_pc = "returned" => Len(batch_results) = Len(image_paths)
    /\ \A n \in 1..Len(batch_results) :
          LET r == batch_results[n]
          IN /\ r.file_paths.original = image_paths[n]
             /\ r.student_id = Paired(student_ids, n)
             /\ IF Paired(sheet_versions, n) # PyNone
                THEN r.sheet_version = Paired(sheet_versions, n)
                ELSE r.sheet_version \in {PyNone, PyStr(detect_sheet_version)}
             /\ Readable(image_paths[n]) => r.processing_info # <<>>
             /\ ~r.success => r.error_message # PyNone

\* a returned batch of two sheets: the first failed, the second succeeded and
\* carries the second student id
C6_Witness ==
    /\ batch_pc = "returned"
    /\ Len(batch_results) = 2
    /\ ~batch_results[1].success
    /\ batch_results[2].success
    /\ batch_results[2].student_id = PyStr(<<"S", "2">>)
    /\ batch_results[1].sheet_version = PyStr(VersionZ)

\* the fields of the results dict other than success and error_message
DataFields ==
    {"student_id", "sheet_version", "processing_info", "bubble_detection",
     "student_answers", "scores", "flagged_questions", "confidence_metrics",
     "file_paths"}

\* C7: the step in which process_omr_sheet fails leaves success = false and
\* an error message, and leaves every field that an earlier step has filled
\* as it was.
C7_FailureKeepsPartialResults ==
    [][(pc # "return" /\ pc' = "return" /\ ~results'.success) =>
          /\ results'.error_message # PyNone
          /\ \A f \in DataFields :
                \/ results'[f] = results[f]
                \/ results[f] = InitialResults(image_path, PyNone, PyNone)[f]]_vars

\* a call that failed in its last step: everything computed before is there
C7_Witness ==
    /\ pc = "return"
    /\ ~results.success
    /\ results.error_message # PyNone
    /\ results.processing_info # <<>>
    /\ results.file_paths.processed # PyNone
    /\ results.student_answers # <<>>
    /\ "total_score" \in DOMAIN results.scores

\* the call has ended on a sheet for which detection reported zero bubbles
ZeroBubblesCase ==
    /\ pc = "return"
    /\ InCalls("detect_and_classify_bubbles")
    /\ bubble_results.bubbles_detected = 0

\* C8: when detection reports zero bubbles the call ends with success =
\* false and an error message, the mapper, the scorer and the renderer have
\* not run, student_answers, scores and the overlay path are still empty,
\* and the call returns its result to the batch.
C8_ZeroBubblesEndsSheet ==
    /\ ZeroBubblesCase =>
          /\ ~results.success
          /\ results.error_message # PyNone
          /\ ~InCalls("map_bubbles_to_answers")
          /\ ~InCalls("calculate_subject_scores")
          /\ ~InCalls("create_overlay_image")
          /\ results.student_answers = <<>>
          /\ results.scores = <<>>
          /\ results.file_paths.overlay = PyNone
    /\ \A n \in 1..Len(batch_results) :
          (/\ batch_results[n].bubble_detection # <<>>
           /\ batch_results[n].bubble_detection.bubbles_detected = 0) =>
              /\ ~batch_results[n].success
              /\ batch_results[n].student_answers = <<>>
              /\ batch_results[n].scores = <<>>

\* the result of a sheet without bubbles has been returned to the batch
C8_Witness ==
    \E n \in 1..Len(batch_results) :
        /\ batch_results[n].bubble_detection # <<>>
        /\ batch_results[n].bubble_detection.bubbles_detected = 0
        /\ batch_results[n].error_message =
              PyStr(<<"Error processing OMR sheet: ",
                      "No bubbles detected in the image">>)

\* C10: a call that reached its overlay step, mapping and scoring done, ends
\* with success = true and its answers and scores.
C10_OverlayFailureKeepsSuccess ==
    (pc = "return" /\ InCalls("load_image")) =>
        /\ results.success
        /\ results.student_answers # <<>>
        /\ results.scores # <<>>

-----------------------------------------------------------------------------
(* Properties of create_overlay_image (checked under OverlaySpec) *)

\* a bubble record that the renderer cannot draw
MalformedRecord(bubble_info) ==
    \/ "bubble" \notin DOMAIN bubble_info
    \/ "index" \notin DOMAIN bubble_info
    \/ Len(bubble_info.bubble) \notin {3, 4}

\* grid input that is empty or malformed: no grid_structure, empty rows, no
\* classification list, or a malformed bubble record somewhere in the grid
EmptyOrMalformedGrid(detection) ==
    \/ NoGridStructure(detection)
    \/ /\ "rows" \in DOMAIN detection.grid_structure
       /\ \/ Len(detection.grid_structure.rows) = 0
          \/ "classifications" \notin DOMAIN detection
          \/ \E r \in 1..Len(detection.grid_structure.rows) :
                \E c \in 1..Len(detection.grid_structure.rows[r]) :
                    MalformedRecord(detection.grid_structure.rows[r][c])

\* C9: for empty or malformed grid input create_overlay_image does not raise
\* and returns the original image without any annotation.
C9_MalformedGridUnannotated ==
    (overlay_output # NotCalled /\ EmptyOrMalformedGrid(overlay_input)) =>
        /\ ~overlay_output.raised
        /\ overlay_output.value.pixels = original_image.pixels
        /\ overlay_output.value.annotations = <<>>

-----------------------------------------------------------------------------
(* app/backend/utils.py: validate_answer_key *)

valid_answers == {<<"A">>, <<"B">>, <<"C">>, <<"D">>}

\* the errors of one item of the key: question number, then answer
ItemErrors(item, total) ==
    LET q_int == int(item[1])
    IN (IF ~q_int.ok
        THEN <<[kind |-> "format", q_num |-> item[1]]>>
        ELSE IF q_int.val < 1 \/ q_int.val > total
             THEN <<[kind |-> "range", q_num |-> item[1]]>>
             ELSE <<>>)
       \o (IF item[2] \notin valid_answers
           THEN <<[kind |-> "answer", q_num |-> item[1]]>>
           ELSE <<>>)

RECURSIVE KeyErrors(_, _)
KeyErrors(items, total) ==
    IF Len(items) = 0 THEN <<>>
    ELSE ItemErrors(items[1], total) \o KeyErrors(Tail(items), total)

\* expected_questions - provided_questions
MissingQuestions(items, total) ==
    {i \in 1..total : \A j \in 1..Len(items) : items[j][1] # str(i)}

\* the dict answer_counts: valid answers in order of first appearance
RECURSIVE AnswerCounts(_, _)
AnswerCounts(items, counts) ==
    IF Len(items) = 0 THEN counts
    ELSE LET answer == items[1][2]
             seen == {j \in 1..Len(counts) : counts[j][1] = answer}
             next == IF answer \notin valid_answers THEN counts
                     ELSE IF seen = {} THEN Append(counts, <<answer, 1>>)
                     ELSE [j \in 1..Len(counts) |->
                              IF j \in seen THEN <<answer, counts[j][2] + 1>>
                              ELSE counts[j]]
         IN AnswerCounts(Tail(items), next)

RECURSIVE CountSum(_)
CountSum(counts) ==
    IF Len(counts) = 0 THEN 0 ELSE counts[1][2] + CountSum(Tail(counts))

\* percentage > 40 or percentage < 15, with percentage = count / total * 100
SkewWarnings(counts) ==
    LET total_valid == CountSum(counts)
        Warn(c) == IF c[2] * 100 > 40 * total_valid THEN <<<<c[1], "high">>>>
                   ELSE IF c[2] * 100 < 15 * total_valid THEN <<<<c[1], "low">>>>
                   ELSE <<>>
        RECURSIVE Each(_)
        Each(cs) == IF Len(cs) = 0 THEN <<>> ELSE Warn(cs[1]) \o Each(Tail(cs))
    IN Each(counts)

validate_answer_key_NoMissingCheck(answer_key, total) ==
    LET errors ==
            (IF Len(answer_key) # total
             THEN <<[kind |-> "count", q_num |-> <<>>]>> ELSE <<>>)
            \o KeyErrors(answer_key, total)
        answer_counts == AnswerCounts(answer_key, <<>>)
    IN Returned([valid |-> Len(errors) = 0,
                 errors |-> errors,
                 warnings |-> SkewWarnings(answer_counts),
                 answer_distribution |-> answer_counts,
                 total_questions |-> Len(answer_key)])

validate_answer_key(answer_key, total) ==
    LET missing_questions == MissingQuestions(answer_key, total)
        errors ==
            (IF Len(answer_key) # total
             THEN <<[kind |-> "count", q_num |-> <<>>]>> ELSE <<>>)
            \o KeyErrors(answer_key, total)
            \o (IF missing_questions # {}
                THEN <<[kind |-> "missing",
                        q_num |-> SortedSeq(missing_questions)]>>
                ELSE <<>>)
        answer_counts == AnswerCounts(answer_key, <<>>)
    IN Returned([valid |-> Len(errors) = 0,
                 errors |-> errors,
                 warnings |-> SkewWarnings(answer_counts),
                 answer_distribution |-> answer_counts,
                 total_questions |-> Len(answer_key)])

-----------------------------------------------------------------------------
(* app/backend/utils.py: identify_flagged_questions *)

RatLt(a, b) == a.n * b.d < b.n * a.d

\* range(1, 101) of the second loop
FlagRange == 1..100

\* first loop: the keys of confidence_scores below the threshold
LowConfidenceKeys(confidence_scores, threshold) ==
    {confidence_scores[j][1] : j \in
        {k \in 1..Len(confidence_scores) :
            RatLt(confidence_scores[k][2], threshold)}}

\* second loop: q_str not in student_answers or student_answers[q_str] == ""
NoAnswerQuestions(answers) ==
    {q \in FlagRange :
        \/ ~HasKey(answers, str(q))
        \/ Lookup(answers, str(q)) = PyStr(<<>>)}

\* some order of a set of strings (the iteration order of a Python set)
RECURSIVE SetOrder(_)
SetOrder(S) ==
    IF S = {} THEN <<>>
    ELSE LET x == CHOOSE y \in S : TRUE IN <<x>> \o SetOrder(S \ {x})

\* the flagged keys whose number lies in lo..hi, by increasing number
RECURSIVE FlaggedBetween(_, _, _, _)
FlaggedBetween(lo, hi, low, none) ==
    IF lo > hi THEN <<>>
    ELSE IF lo = hi
         THEN SetOrder((IF lo \in none THEN {str(lo)} ELSE {})
                       \cup {k \in low : int(k).val = lo})
         ELSE LET mid == (lo + hi) \div 2
              IN FlaggedBetween(lo, mid, low, none)
                 \o FlaggedBetween(mid + 1, hi, low, none)

\* sorted(set(flagged), key=int)
FlaggedInOrder(low, none) ==
    LET values == none \cup {int(k).val : k \in low}
    IN IF values = {} THEN <<>>
       ELSE FlaggedBetween(CHOOSE v \in values : \A w \in values : v <= w,
                           CHOOSE v \in values : \A w \in values : w <= v,
                           low, none)

identify_flagged_questions_AboveThreshold(answers, confidence_scores, threshold) ==
    LET low == {confidence_scores[j][1] : j \in
                   {k \in 1..Len(confidence_scores) :
                       RatLt(threshold, confidence_scores[k][2])}}
        none == NoAnswerQuestions(answers)
    IN  IF \E k \in low : ~int(k).ok THEN Raised("ValueError")
        ELSE Returned(FlaggedInOrder(low, none))

\* int raises ValueError for a flagged key that is not a number
identify_flagged_questions(answers, confidence_scores, threshold) ==
    LET low == LowConfidenceKeys(confidence_scores, threshold)
        none == NoAnswerQuestions(answers)
    IN  IF \E k \in low : ~int(k).ok THEN Raised("ValueError")
        ELSE Returned(FlaggedInOrder(low, none))

-----------------------------------------------------------------------------
(* app/backend/schemas.py: ExamBase and AnswerKeyValidation *)

\* the length both validators require of an answer key
RequiredAnswers == 100

AllAnswersValid(items) ==
    \A j \in 1..Len(items) : items[j][2] \in valid_answers

\* ExamBase.validate_answer_keys: the first version whose key fails raises
ExamBase_validate_answer_keys(v) ==
    IF \E i \in 1..Len(v) :
          \/ Len(v[i][2]) # RequiredAnswers
          \/ ~AllAnswersValid(v[i][2])
    THEN Raised("ValueError")
    ELSE Returned(v)

\* ExamBase(total_questions=..., answer_keys=...): the model is built when
\* the validator of answer_keys returns
ExamBase(total, keys) ==
    LET checked == ExamBase_validate_answer_keys(keys)
    IN IF checked.raised THEN Raised("ValidationError")
       ELSE Returned([total_questions |-> total, answer_keys |-> checked.value])

\* AnswerKeyValidation.validate_answers: the out-of-range ValueError is
\* raised inside the try and re-raised by its except as a format error
AnswerKeyValidation_validate_answers(v) ==
    IF Len(v) # RequiredAnswers THEN Raised("ValueError")
    ELSE IF \E j \in 1..Len(v) :
               \/ ~int(v[j][1]).ok
               \/ int(v[j][1]).val < 1
               \/ int(v[j][1]).val > RequiredAnswers
               \/ v[j][2] \notin valid_answers
         THEN Raised("ValueError")
         ELSE Returned(v)

-----------------------------------------------------------------------------
(* The calls of the app/backend functions: arguments and actions *)

\* the dicts of at most max items with keys of Keys and values of Vals
SmallDicts(Keys, Vals, max) ==
    UNION {{d \in [1..n -> Keys \X Vals] :
               \A i, j \in 1..n : i # j => d[i][1] # d[j][1]} : n \in 0..max}

\* the dict str(q) -> base for q in 1..n, item q replaced by dev[q] if any
Sheet(n, base, dev) ==
    [q \in 1..n |-> IF q \in DOMAIN dev THEN dev[q] ELSE <<str(q), base>>]

\* the replacements of at most two questions q of DOMAIN Items by an item
\* of Items[q]
Deviations(Items) ==
    UNION {{dev \in [D -> UNION {Items[q] : q \in D}] :
               \A q \in D : dev[q] \in Items[q]} :
           D \in {E \in SUBSET DOMAIN Items : Cardinality(E) <= 2}}

ValidateCalls ==
    {[fn |-> "validate_answer_key", answer_key |-> k, total_questions |-> n] :
        k \in SmallDicts({<<"1">>, <<"2">>, <<"3">>, <<"0", "1">>, <<"0">>,
                          <<"Q", "1">>},
                         {<<"A">>, <<"D">>, <<"a">>}, MaxAnswers),
        n \in 0..MaxAnswers}

Thresholds == {Rat(1, 2), Rat(7, 10), Rat(4, 5), Rat(1, 1)}

FlagAnswers ==
    SmallDicts({<<"1">>, <<"2">>},
               {PyStr(<<"A">>), PyStr(<<>>), PyNone}, MaxAnswers)
    \cup
    UNION {{Sheet(n, PyStr(<<"A">>), dev) : n \in {99, 100}} :
              dev \in Deviations(
                  (1 :> {<<str(1), PyNone>>, <<str(1), PyStr(<<>>)>>})
                  @@ (99 :> {<<str(99), PyNone>>,
                             <<str(99), PyList(<<"A", "B">>)>>}))}

FlagCalls ==
    {[fn |-> "identify_flagged_questions", student_answers |-> a,
      confidence_scores |-> c, confidence_threshold |-> t] :
        a \in FlagAnswers,
        c \in SmallDicts({<<"1">>, <<"1", "0", "0">>},
                         {Rat(1, 2), Rat(3, 4), Rat(9, 10)}, MaxAnswers),
        t \in Thresholds}

\* answer keys of about the required length, a wrong answer or a wrong
\* question id at the first or the last item
SchemaKeys ==
    UNION {{Sheet(n, <<"A">>, dev) : n \in {1, 2, 99, 100, 101}} :
              dev \in Deviations(
                  1 :> {<<str(1), <<"E">>>>, <<<<"Q", "1">>, <<"A">>>>,
                        <<<<"0">>, <<"A">>>>, <<<<"1", "0", "1">>, <<"A">>>>})}

ExamCalls ==
    {[fn |-> "ExamBase", total_questions |-> n, answer_keys |-> ks] :
        n \in {1, 2, 99, 100},
        ks \in {<<<<<<"A">>, k>>>> : k \in SchemaKeys}
               \cup {<< <<<<"A">>, Sheet(100, <<"A">>, <<>>)>>, <<<<"B">>, k>> >> :
                        k \in SchemaKeys}}

KeyValidationCalls ==
    {[fn |-> "AnswerKeyValidation", answers |-> k] : k \in SchemaKeys}

UtilsInit ==
    /\ util_call \in ValidateCalls \cup FlagCalls \cup ExamCalls
                     \cup KeyValidationCalls
    /\ util_result = NotCalled
    /\ ScorerUnused
    /\ OverlayUnused
    /\ PipelineUnused

ValidateAnswerKey ==
    /\ util_result = NotCalled
    /\ util_call.fn = "validate_answer_key"
    /\ util_result' = validate_answer_key(util_call.answer_key,
                                          util_call.total_questions)
    /\ UNCHANGED <<util_call, scorer_vars, overlay_vars, pipeline_vars>>

IdentifyFlaggedQuestions ==
    /\ util_result = NotCalled
    /\ util_call.fn = "identify_flagged_questions"
    /\ util_result' = identify_flagged_questions(util_call.student_answers,
                                                 util_call.confidence_scores,
                                                 util_call.confidence_threshold)
    /\ UNCHANGED <<util_call, scorer_vars, overlay_vars, pipeline_vars>>

CreateExam ==
    /\ util_result = NotCalled
    /\ util_call.fn = "ExamBase"
    /\ util_result' = ExamBase(util_call.total_questions, util_call.answer_keys)
    /\ UNCHANGED <<util_call, scorer_vars, overlay_vars, pipeline_vars>>

ValidateAnswers ==
    /\ util_result = NotCalled
    /\ util_call.fn = "AnswerKeyValidation"
    /\ util_result' = AnswerKeyValidation_validate_answers(util_call.answers)
    /\ UNCHANGED <<util_call, scorer_vars, overlay_vars, pipeline_vars>>

UtilsNext ==
    \/ ValidateAnswerKey
    \/ IdentifyFlaggedQuestions
    \/ CreateExam
    \/ ValidateAnswers

UtilsSpec == UtilsInit /\ [][UtilsNext]_vars

-----------------------------------------------------------------------------
(* Properties of the app/backend functions *)

UtilReturned(fn) ==
    /\ util_result # NotCalled
    /\ util_call.fn = fn
    /\ ~util_result.raised

OptionLetters == {<<"A">>, <<"B">>, <<"C">>, <<"D">>}

\* the key has exactly the question ids "1".."n" and answers among A-D
ExactKey(key, n) ==
    /\ Len(key) = n
    /\ {key[j][1] : j \in 1..Len(key)} = {str(i) : i \in 1..n}
    /\ \A j \in 1..Len(key) : key[j][2] \in OptionLetters

\* C11: validate_answer_key(key, N) reports valid = true exactly when the key
\* has N entries whose ids are the strings "1".."N" with answers among A-D,
\* and reports at least one error whenever it reports valid = false.
C11_ValidIffExactKey ==
    UtilReturned("validate_answer_key") =>
        /\ util_result.value.valid
             <=> ExactKey(util_call.answer_key, util_call.total_questions)
        /\ ~util_result.value.valid => Len(util_result.value.errors) >= 1

C11_Witness ==
    /\ UtilReturned("validate_answer_key")
    /\ util_call.total_questions >= 2
    /\ util_result.value.valid

\* C12: an exam definition is accepted only when the answer key of every
\* sheet version has exactly the exam's total_questions entries and every
\* answer is among A-D.
C12_ExamAcceptedOnlyWithFullKeys ==
    UtilReturned("ExamBase") =>
        \A i \in 1..Len(util_call.answer_keys) :
            /\ Len(util_call.answer_keys[i][2]) = util_call.total_questions
            /\ \A j \in 1..Len(util_call.answer_keys[i][2]) :
                  util_call.answer_keys[i][2][j][2] \in OptionLetters

-----------------------------------------------------------------------------
(* Determinism of the scorer *)

\* the orders in which a dict with these items can be iterated
Orders(items) ==
    {[j \in 1..Len(items) |-> items[p[j]]] :
        p \in {q \in [1..Len(items) -> 1..Len(items)] :
                  \A i, j \in 1..Len(items) : i # j => q[i] # q[j]}}

-----------------------------------------------------------------------------
(* Flagging for review *)

Elements(seq) == {seq[j] : j \in 1..Len(seq)}

\* C14: with the same answers and confidence scores, every question that
\* identify_flagged_questions flags at a threshold is flagged at every
\* higher threshold as well.
C14_FlaggedGrowsWithThreshold ==
    UtilReturned("identify_flagged_questions") =>
        \A higher \in Thresholds :
            RatLeq(util_call.confidence_threshold, higher) =>
                LET above == identify_flagged_questions(
                                 util_call.student_answers,
                                 util_call.confidence_scores, higher)
                IN /\ ~above.raised
                   /\ Elements(util_result.value) \subseteq Elements(above.value)

C14_Witness ==
    /\ UtilReturned("identify_flagged_questions")
    /\ util_call.confidence_threshold = Rat(7, 10)
    /\ <<"1">> \in Elements(util_result.value)
    /\ HasKey(util_call.student_answers, <<"1">>)
    /\ Lookup(util_call.student_answers, <<"1">>) = PyStr(<<"A">>)
    /\ <<"1", "0", "0">> \notin Elements(util_result.value)
    /\ <<<<"1", "0", "0">>, Rat(3, 4)>> \in Elements(util_call.confidence_scores)

\* the question has no answer: missing from the map, empty or null
Unanswered(answers, q) ==
    \/ ~HasKey(answers, str(q))
    \/ Lookup(answers, str(q)) = PyStr(<<>>)
    \/ Lookup(answers, str(q)) = PyNone

\* C17: identify_flagged_questions returns every question of 1..100 whose
\* answer is missing, empty or null, and every question whose confidence is
\* below the threshold.
C17_UnansweredAreFlagged ==
    UtilReturned("identify_flagged_questions") =>
        /\ \A q \in 1..100 :
              Unanswered(util_call.student_answers, q)
                  => str(q) \in Elements(util_result.value)
        /\ \A j \in 1..Len(util_call.confidence_scores) :
              RatLt(util_call.confidence_scores[j][2],
                    util_call.confidence_threshold)
                  => util_call.confidence_scores[j][1]
                         \in Elements(util_result.value)

-----------------------------------------------------------------------------
(* The scorers on whole sheets of total_questions questions *)

\* the key of a whole sheet: the letters A-D in turn
KeyLetter(q) == Letters[(q % 4) + 1]

FullKey ==
    [k \in {str(q) : q \in 1..total_questions} |-> <<KeyLetter(int(k).val)>>]

\* what a sheet answers where it does not deviate
BaseAnswer(kind, q) ==
    CASE kind = "right" -> PyStr(<<KeyLetter(q)>>)
      [] kind = "wrong" -> PyStr(<<KeyLetter(q + 1)>>)
      [] kind = "blank" -> PyNone

SheetKinds == {"right", "wrong", "blank"}

BoundaryQuestions == {1, 20, 21, 100}

\* the AnswerMaps of all questions that deviate at up to two questions
FullSheets ==
    UNION {{[q \in 1..total_questions |->
               <<str(q), IF q \in DOMAIN dev THEN dev[q] ELSE BaseAnswer(kind, q)>>] :
            kind \in SheetKinds} :
           dev \in UNION {[D -> {PyNone, PyStr(<<"a">>), PyStr(<<"B">>),
                                 PyList(<<"A", "B">>)}] :
                          D \in {E \in SUBSET BoundaryQuestions :
                                    Cardinality(E) <= 2}}}

\* other spellings of the identifier of question 5
MixedForms == {<<"Q", "5">>, <<"0", "5">>}

\* a key that lists question 5 under every spelling
MixedKey ==
    [k \in DOMAIN FullKey \cup MixedForms |->
        IF k \in MixedForms THEN <<KeyLetter(5)>> ELSE FullKey[k]]

\* the AnswerMaps of all questions that answer question 5 again under one or
\* both of the other spellings
MixedSheets ==
    {[q \in 1..total_questions |-> <<str(q), BaseAnswer(kind, q)>>] \o extra :
        kind \in SheetKinds,
        extra \in UNION {[1..m -> MixedForms \X {PyStr(<<KeyLetter(5)>>), PyNone}] :
                         m \in 1..2}}

SheetInit ==
    /\ \/ student_answers \in FullSheets /\ correct_answers = FullKey
       \/ student_answers \in MixedSheets /\ correct_answers = MixedKey
    /\ scores = NotCalled
    /\ utils_scores = NotCalled
    /\ called = "none"
    /\ OverlayUnused
    /\ PipelineUnused
    /\ UtilsUnused

SheetSpec == SheetInit /\ [][ScoreNext]_vars

\* the AnswerMap has exactly the questions "1".."100"
WholeSheet ==
    /\ Len(student_answers) = 100
    /\ \A q \in 1..100 : student_answers[q][1] = str(q)

\* C15: for a sheet of 100 questions whose every answer is a single letter
\* matching the key, OMRProcessor.calculate_subject_scores returns total
\* score 100, 20 for each of the 5 subjects and 100 correct answers.
C15_AllCorrectScoresHundred ==
    (/\ called = "omr"
     /\ WholeSheet
     /\ \A j \in 1..Len(student_answers) : SingleLetterMatch(j))
    => /\ ~scores.raised
       /\ scores.value.total_score = Rat(100, 1)
       /\ \A s \in SubjectNames : scores.value.subject_scores[s] = Rat(20, 1)
       /\ Cardinality(SubjectNames) = 5
       /\ scores.value.correct_answers = 100

C15_Witness ==
    /\ called = "omr"
    /\ WholeSheet
    /\ \A j \in 1..Len(student_answers) : SingleLetterMatch(j)
    /\ student_answers[20][2] = PyStr(<<"a">>)

\* C16: for a blank sheet, an AnswerMap in which all 100 questions map to
\* null, the scorer returns total score 0 and score 0 for every subject.
C16_BlankSheetScoresZero ==
    (/\ called = "omr"
     /\ WholeSheet
     /\ \A j \in 1..Len(student_answers) : student_answers[j][2] = PyNone)
    => /\ ~scores.raised
       /\ scores.value.total_score = Rat(0, 1)
       /\ \A s \in SubjectNames : scores.value.subject_scores[s] = Rat(0, 1)

C16_Witness ==
    /\ called = "omr"
    /\ WholeSheet
    /\ \A j \in 1..Len(student_answers) : student_answers[j][2] = PyNone
    /\ ~scores.raised

-----------------------------------------------------------------------------
(* process_omr_sheet running while another thread configures answer keys *)

\* a key file without the version A
OtherKeyFile == (<<"B">> :> SheetKey)

\* set_answer_key called by another thread during a run (line 35)
ConcurrentSetAnswerKey(version, key) ==
    /\ batch_pc = "loop"
    /\ answer_keys' = (version :> key) @@ answer_keys
    /\ UNCHANGED <<batch_vars, sheet_vars, files>>

\* load_answer_keys called by another thread during a run (line 42): the
\* attribute is bound to the dict read from the file
ConcurrentLoadAnswerKeys(content) ==
    /\ batch_pc = "loop"
    /\ answer_keys' = content
    /\ UNCHANGED <<batch_vars, sheet_vars, files>>

\* line 265: sheet_version in self.answer_keys
ScoreCheck ==
    /\ pc = "score"
    /\ IF sheet_version.v \in DOMAIN answer_keys
       THEN /\ pc' = "lookup"
            /\ UNCHANGED results
       ELSE /\ results' = [results EXCEPT
                  !.scores = MissingKeyPayload(sheet_version.v)]
            /\ pc' = "confidence"
    /\ UNCHANGED <<processor_vars, batch_vars, image_path, sheet_version,
                   bubble_results, answer_mapping, calls, files>>

\* lines 266-271: self.answer_keys[sheet_version] is read again; KeyError
\* when the version is no longer in the table
ScoreLookup ==
    /\ pc = "lookup"
    /\ IF sheet_version.v \in DOMAIN answer_keys
       THEN LET out == calculate_subject_scores(answer_mapping.answers,
                                                answer_keys[sheet_version.v])
            IN /\ calls' = Append(calls, "calculate_subject_scores")
               /\ IF out.raised
                  THEN /\ results' = Handler(results, out.exc)
                       /\ pc' = "return"
                  ELSE /\ results' = [results EXCEPT !.scores = out.value]
                       /\ pc' = "confidence"
       ELSE /\ results' = Handler(results, "KeyError")
            /\ pc' = "return"
            /\ UNCHANGED calls
    /\ UNCHANGED <<processor_vars, batch_vars, image_path, sheet_version,
                   bubble_results, answer_mapping, files>>

ConcurrentNext ==
    \/ \E version \in {VersionA}, key \in {SheetKey} :
          SetAnswerKey(version, key) /\ UNCHANGED <<scorer_vars, overlay_vars, utils_vars>>
    \/ \E paths \in PathLists :
          BatchStart(paths, PyNone, PyNone) /\ UNCHANGED <<scorer_vars, overlay_vars, utils_vars>>
    \/ \E version \in {VersionA}, key \in {SheetKey} :
          ConcurrentSetAnswerKey(version, key)
              /\ UNCHANGED <<scorer_vars, overlay_vars, utils_vars>>
    \/ \E content \in {OtherKeyFile} :
          ConcurrentLoadAnswerKeys(content)
              /\ UNCHANGED <<scorer_vars, overlay_vars, utils_vars>>
    \/ ProcessStart /\ UNCHANGED <<scorer_vars, overlay_vars, utils_vars>>
    \/ Preprocess /\ UNCHANGED <<scorer_vars, overlay_vars, utils_vars>>
    \/ DetectVersion /\ UNCHANGED <<scorer_vars, overlay_vars, utils_vars>>
    \/ DetectBubbles /\ UNCHANGED <<scorer_vars, overlay_vars, utils_vars>>
    \/ MapAnswers /\ UNCHANGED <<scorer_vars, overlay_vars, utils_vars>>
    \/ ScoreCheck /\ UNCHANGED <<scorer_vars, overlay_vars, utils_vars>>
    \/ ScoreLookup /\ UNCHANGED <<scorer_vars, overlay_vars, utils_vars>>
    \/ Confidence /\ UNCHANGED <<scorer_vars, overlay_vars, utils_vars>>
    \/ Overlay /\ UNCHANGED <<scorer_vars, overlay_vars, utils_vars>>
    \/ ProcessReturn /\ UNCHANGED <<scorer_vars, overlay_vars, utils_vars>>
    \/ BatchReturn /\ UNCHANGED <<scorer_vars, overlay_vars, utils_vars>>

ConcurrentSpec == Init /\ [][ConcurrentNext]_vars

\* C18: whatever set_answer_key and load_answer_keys calls interleave with a
\* run, a run that found its version in the table at the membership check is
\* scored against that version's key: the lookup that follows does not fail.
C18_CheckedKeyIsScored ==
    [][(pc = "lookup" /\ pc' # "lookup")
          => (pc' = "confidence" /\ "total_score" \in DOMAIN results'.scores)]_vars

-----------------------------------------------------------------------------
(* process_omr_sheet as a function of its arguments and the answer keys *)

\* lines 263-300: scoring, confidence metrics and overlay of a mapped sheet
ScoredSheet(res, path, version, detection, mapping, keys) ==
    LET out == calculate_subject_scores(mapping.answers, keys[version.v])
        r5 == IF version.v \in DOMAIN keys
              THEN [res EXCEPT !.scores = out.value]
              ELSE [res EXCEPT !.scores = MissingKeyPayload(version.v)]
        r6 == [r5 EXCEPT !.confidence_metrics =
                  IF "confidence_scores" \in DOMAIN detection
                  THEN ConfidenceMetrics(detection.confidence_scores)
                  ELSE <<>>]
        overlay == create_overlay_image(load_image(path), detection)
    IN IF version.v \in DOMAIN keys /\ out.raised THEN Handler(res, out.exc)
       ELSE IF overlay.raised THEN Handler(r6, overlay.exc)
       ELSE [r6 EXCEPT !.file_paths.overlay = PyStr(ReplaceDots(path, "_overlay")),
                       !.success = TRUE]

\* lines 205-309: the result of one call on a processor with these keys
process_omr_sheet(path, version, student_id, keys) ==
    LET r0 == InitialResults(path, version, student_id)
        r1 == [r0 EXCEPT !.processing_info = ProcessingInfo(path),
                         !.file_paths.processed =
                             PyStr(ReplaceDots(path, "_processed"))]
        v == IF version = PyNone THEN PyStr(detect_sheet_version) ELSE version
        detection == detect_and_classify_bubbles(path)
        r3 == [r1 EXCEPT !.sheet_version = v, !.bubble_detection = detection]
        mapping == map_bubbles_to_answers(detection.grid_structure,
                                          detection.classifications)
        r4 == [r3 EXCEPT !.student_answers = mapping.answers,
                         !.flagged_questions = mapping.flagged_questions]
    IN IF ~Readable(path) THEN Handler(r0, "UnreadableImageError")
       ELSE IF detection.bubbles_detected = 0
            THEN Handler(r3, "No bubbles detected in the image")
            ELSE ScoredSheet(r4, path, v, detection, mapping, keys)

\* C19: a run of process_omr_sheet leaves the answer keys as they are, and
\* the result appended for a sheet of a batch is the result of processing
\* that sheet alone, whatever sheets were processed before it.
C19_SheetResultIsStateless ==
    [][/\ batch_pc = "loop" => answer_keys' = answer_keys
       /\ Len(batch_results') = Len(batch_results) + 1
             => batch_results'[Len(batch_results')]
                    = process_omr_sheet(image_paths[batch_i + 1],
                                        ListArg(sheet_versions, batch_i),
                                        ListArg(student_ids, batch_i),
                                        answer_keys)]_vars

C19_Witness ==
    /\ batch_pc = "returned"
    /\ Len(batch_results) = 2
    /\ ~batch_results[1].success
    /\ batch_results[1].student_answers # <<>>
    /\ batch_results[2].success
    /\ "total_score" \in DOMAIN batch_results[2].scores

-----------------------------------------------------------------------------
(* The answer mapper's resolution policy *)

\* the mapper has run in the current call of process_omr_sheet
Mapped ==
    /\ pc \in {"score", "confidence", "overlay", "return"}
    /\ \E j \in 1..Len(calls) : calls[j] = "map_bubbles_to_answers"

\* the letters of question q whose bubble the detector classified as filled
MarkedLetters(q) ==
    SelectSeq(<<"A", "B", "C", "D">>,
              LAMBDA letter :
                  \E k \in 1..4 :
                      /\ letter = <<"A", "B", "C", "D">>[k]
                      /\ bubble_results.classifications[(q - 1) * 4 + k])

FlaggedAs(q, issue) ==
    \E j \in 1..Len(results.flagged_questions) :
        results.flagged_questions[j] = [question |-> str(q), issue |-> issue]

\* C20: every question group is resolved by the policy: one filled bubble
\* gives that letter, none gives null flagged no_mark, two or more give the
\* list of all filled letters flagged multiple_marks; these values are what
\* process_omr_sheet hands to the scorer.
C20_MapperFollowsPolicy ==
    Mapped =>
        /\ results.student_answers = answer_mapping.answers
        /\ Len(results.student_answers) * 4 = bubble_results.bubbles_detected
        /\ \A q \in 1..Len(results.student_answers) :
              LET marked == MarkedLetters(q)
                  answer == results.student_answers[q][2]
              IN /\ results.student_answers[q][1] = str(q)
                 /\ Len(marked) = 1 =>
                       /\ answer = PyStr(marked)
                       /\ ~FlaggedAs(q, "no_mark")
                       /\ ~FlaggedAs(q, "multiple_marks")
                 /\ Len(marked) = 0 =>
                       answer = PyNone /\ FlaggedAs(q, "no_mark")
                 /\ Len(marked) >= 2 =>
                       answer = PyList(marked) /\ FlaggedAs(q, "multiple_marks")

C20_Witness ==
    /\ Mapped
    /\ pc = "confidence"
    /\ \E q \in 1..Len(results.student_answers) : Len(MarkedLetters(q)) = 1
    /\ \E q \in 1..Len(results.student_answers) : Len(MarkedLetters(q)) = 0
    /\ \E q \in 1..Len(results.student_answers) : Len(MarkedLetters(q)) >= 2
    /\ "total_score" \in DOMAIN results.scores

-----------------------------------------------------------------------------
(* The order of the stages of one process_omr_sheet call (checked under    *)
(* Spec)                                                                   *)

\* the component calls of lines 232, 242, 247, 255, 267, 288 and 289, in the
\* order of the code
StageOrder ==
    <<"preprocess_image", "detect_sheet_version",
      "detect_and_classify_bubbles", "map_bubbles_to_answers",
      "calculate_subject_scores", "load_image", "create_overlay_image">>

StageIndex(name) == CHOOSE n \in 1..Len(StageOrder) : StageOrder[n] = name

\* the stages that must have succeeded before a stage runs (version detection
\* and scoring are conditional stages)
StagesBefore(name) ==
    {StageOrder[n] : n \in 1..(StageIndex(name) - 1)}
        \ {"detect_sheet_version", "calculate_subject_scores"}

\* the call has made its last component call and stored the overlay
OverlaySaved ==
    /\ Len(calls) > 0
    /\ calls[Len(calls)] = "create_overlay_image"
    /\ results.file_paths.overlay = PyStr(ReplaceDots(image_path, "_overlay"))
    /\ ReplaceDots(image_path, "_overlay") \in DOMAIN files

\* C21: within one process_omr_sheet call the stages run in the order
\* normalize, version detection, detect/classify, map, score, render, each at
\* most once and only after all earlier stages succeeded; success = true
\* only once the overlay is rendered and saved; the scorer and the renderer
\* work on the output of the same mapper run.
C21_StagesInFixedOrder ==
    /\ \A m, n \in 1..Len(calls) :
          m < n => StageIndex(calls[m]) < StageIndex(calls[n])
    /\ \A n \in 1..Len(calls) :
          StagesBefore(calls[n]) \subseteq {calls[m] : m \in 1..(n - 1)}
    /\ results # <<>> /\ results.error_message # PyNone =>
          pc \in {"return", "none"}
    /\ results # <<>> /\ results.success =>
          /\ OverlaySaved
          /\ results.error_message = PyNone
    /\ (InCalls("map_bubbles_to_answers") /\ batch_pc = "loop") =>
          /\ answer_mapping =
                map_bubbles_to_answers(bubble_results.grid_structure,
                                       bubble_results.classifications)
          /\ results.student_answers = answer_mapping.answers
          /\ "total_score" \in DOMAIN results.scores =>
                results.scores =
                    calculate_subject_scores(
                        answer_mapping.answers,
                        answer_keys[sheet_version.v]).value
          /\ results.success =>
                files[ReplaceDots(image_path, "_overlay")] =
                    create_overlay_image(load_image(image_path),
                                         results.bubble_detection).value

\* a call with no declared version and a key for the detected one has run
\* every stage and ended with success
C21_Witness ==
    /\ pc = "return"
    /\ calls = StageOrder
    /\ results.success
    /\ "total_score" \in DOMAIN results.scores

-----------------------------------------------------------------------------
(* The sheet version of a call (checked under Spec) *)

\* the version argument of the call in progress
DeclaredVersion == ListArg(sheet_versions, batch_i)

\* the call is past its version step
VersionSettled ==
    pc \in {"detect", "map", "score", "confidence", "overlay", "return"}
        /\ InCalls("preprocess_image") /\ Readable(image_path)

\* the scores section that a lookup under the given version yields
ScoresUnder(version) ==
    IF version \in DOMAIN answer_keys
    THEN calculate_subject_scores(answer_mapping.answers,
                                  answer_keys[version]).value
    ELSE [error |-> <<"No answer key for version ", version>>]

\* C22: a declared version is reported unchanged and used for the key lookup
\* without the detector being called; with no declared version the detector
\* is called, returns "A" for every image, and "A" is reported and used for
\* the key lookup.
C22_VersionSelection ==
    VersionSettled =>
        /\ IF DeclaredVersion # PyNone
           THEN /\ ~InCalls("detect_sheet_version")
                /\ results.sheet_version = DeclaredVersion
           ELSE /\ InCalls("detect_sheet_version")
                /\ results.sheet_version = PyStr(<<"A">>)
        /\ sheet_version = results.sheet_version
        /\ pc \in {"confidence", "overlay", "return"}
              /\ InCalls("map_bubbles_to_answers") =>
                 results.scores = ScoresUnder(results.sheet_version.v)

\* the second sheet of a batch, undeclared, was detected as "A" and scored
\* with the key of "A", after a first sheet declared as "Z" got the payload
\* for "Z"
C22_Witness ==
    /\ pc = "return"
    /\ batch_i = 1
    /\ DeclaredVersion = PyNone
    /\ results.sheet_version = PyStr(<<"A">>)
    /\ "total_score" \in DOMAIN results.scores
    /\ batch_results[1].sheet_version = PyStr(<<"Z">>)
    /\ batch_results[1].scores = [error |-> <<"No answer key for version ", <<"Z">>>>]

-----------------------------------------------------------------------------
(* The arguments of the scorer and of the renderer (checked under Spec) *)

\* the step taken is the scoring step, the confidence step or the overlay
\* step of a call
AfterMapping == pc \in {"score", "confidence", "overlay"}

\* C23: the scorer and the renderer leave the answers of the mapper, the
\* answer key, the grid structure and the classification list as they got
\* them, so the student_answers of the result are the mapper's output.
C23_ArgumentsNotMutated ==
    [][AfterMapping =>
          /\ answer_mapping' = answer_mapping
          /\ bubble_results' = bubble_results
          /\ answer_keys' = answer_keys
          /\ results'.bubble_detection = bubble_results
          /\ results'.student_answers =
                map_bubbles_to_answers(bubble_results.grid_structure,
                                       bubble_results.classifications).answers]_vars

\* a scored and rendered sheet whose result holds the three answers of the
\* mapper: a letter, a list and None
C23_Witness ==
    /\ pc = "return"
    /\ InCalls("calculate_subject_scores")
    /\ InCalls("create_overlay_image")
    /\ results.student_answers =
          <<    <<<<"1">>, PyStr(<<"A">>)>>,
                <<<<"2">>, PyList(<<"B", "C">>)>>,
                <<<<"3">>, PyNone>>    >>

-----------------------------------------------------------------------------
(* The question numbers of the overlay, the mapper and the scorer (checked *)
(* under OverlaySpec)                                                      *)

\* the grid is one that the renderer and the mapper can both walk: rows and
\* a classification list are there and every bubble record is complete
WalkableGrid(detection) ==
    /\ ~NoGridStructure(detection)
    /\ "rows" \in DOMAIN detection.grid_structure
    /\ "classifications" \in DOMAIN detection
    /\ \A r \in 1..Len(detection.grid_structure.rows) :
          \A c \in 1..Len(detection.grid_structure.rows[r]) :
              ~MalformedRecord(detection.grid_structure.rows[r][c])

\* the number of complete groups of the rows before row r
RECURSIVE GroupsBefore(_, _)
GroupsBefore(rows, r) ==
    IF r <= 1 THEN 0
    ELSE GroupsBefore(rows, r - 1)
            + (Len(rows[r - 1]) \div options_per_question)

GroupCount(rows) == GroupsBefore(rows, Len(rows) + 1)

\* the bubbles of the n-th complete group in row-major order
GroupAt(rows, n) ==
    LET r == CHOOSE k \in 1..Len(rows) :
                 GroupsBefore(rows, k) < n /\ n <= GroupsBefore(rows, k + 1)
        g == n - GroupsBefore(rows, r) - 1
    IN SubSeq(rows[r], options_per_question * g + 1,
              options_per_question * (g + 1))

\* where the label of a group goes: left of its first bubble
LabelAnchor(question_bubbles) ==
    LET b == question_bubbles[1].bubble
    IN IF Len(b) = 3 THEN <<b[1] - 30, b[2]>>
       ELSE <<b[1] - 30, b[2] + (b[4] \div 2)>>

\* the mapper's answer for a group
Resolution(question_bubbles, classifications) ==
    LET filled == FilledLetters(question_bubbles, classifications, 1)
    IN IF Len(filled) = 1 THEN PyStr(filled)
       ELSE IF Len(filled) = 0 THEN PyNone
       ELSE PyList(filled)

IsLabel(a) == a.op = "putText"

Labels(overlay) == SelectSeq(overlay.annotations, IsLabel)

-----------------------------------------------------------------------------
(* The outlines and labels of the overlay (checked under OverlaySpec) *)

\* the classification of a bubble as the renderer sees it
ClassOf(bubble_info, classifications) ==
    IF bubble_info.index >= Len(classifications) THEN "unprocessed"
    ELSE IF classifications[bubble_info.index + 1] THEN "filled"
    ELSE "unfilled"

\* the drawing call that outlines a bubble in the given colour and thickness
Outline(bubble_info, color, thickness) ==
    LET b == bubble_info.bubble
    IN IF Len(b) = 3
       THEN [op |-> "circle", at |-> <<b[1], b[2]>>, size |-> <<b[3]>>,
             color |-> color, thickness |-> thickness]
       ELSE [op |-> "rectangle", at |-> <<b[1], b[2]>>,
             size |-> <<b[1] + b[3], b[2] + b[4]>>,
             color |-> color, thickness |-> thickness]

\* C25: the overlay holds, for every complete group in row-major order, the
\* outlines of its bubbles and then one question-number label at its first
\* bubble; a filled bubble is outlined in the filled colour with the thick
\* line, an unfilled one in the unfilled colour with the thin line, and one
\* whose index is beyond the classification list in the unprocessed colour
\* with the thin line.
C25_OutlineStyleByClassification ==
    (overlay_output # NotCalled /\ WalkableGrid(overlay_input)) =>
        LET rows == overlay_input.grid_structure.rows
            cl == overlay_input.classifications
            drawn == overlay_output.value.annotations
            per == options_per_question + 1
        IN /\ ~overlay_output.raised
           /\ Len(drawn) = per * GroupCount(rows)
           /\ \A n \in 1..GroupCount(rows) :
                 /\ \A j \in 1..options_per_question :
                       LET b == GroupAt(rows, n)[j]
                           kind == ClassOf(b, cl)
                       IN drawn[per * (n - 1) + j] =
                            CASE kind = "filled" ->
                                    Outline(b, <<0, 255, 0>>, 3)
                              [] kind = "unfilled" ->
                                    Outline(b, <<255, 0, 0>>, 1)
                              [] kind = "unprocessed" ->
                                    Outline(b, <<128, 128, 128>>, 1)
                 /\ IsLabel(drawn[per * n])
                 /\ drawn[per * n].at = LabelAnchor(GroupAt(rows, n))

\* an overlay whose first group has a filled, an unfilled and two
\* unprocessed bubbles, drawn in three styles and followed by its label
C25_Witness ==
    /\ overlay_output # NotCalled
    /\ WalkableGrid(overlay_input)
    /\ Len(overlay_input.classifications) = 2
    /\ Len(overlay_output.value.annotations) >= 5
    /\ overlay_output.value.annotations[1].thickness = 3
    /\ overlay_output.value.annotations[2].color = <<255, 0, 0>>
    /\ overlay_output.value.annotations[3].color = <<128, 128, 128>>
    /\ overlay_output.value.annotations[4].thickness = 1
    /\ IsLabel(overlay_output.value.annotations[5])

-----------------------------------------------------------------------------
(* The ranges of the scores (checked under SheetSpec) *)

\* the per-subject correct counts, in the order of the subjects
CorrectCounts(sc) ==
    [i \in 1..Len(subjects) |-> sc.subject_breakdown[subjects[i]]]

\* C26: in every result of OMRProcessor.calculate_subject_scores each
\* subject's correct count is within 0..questions_per_subject, each subject
\* score within 0..20, total_score within 0..20 * |subjects|, and
\* correct_answers is the sum of the subjects' correct counts and at most
\* total_questions, also when the identifiers mix the forms "5", "Q5", "05".
C26_ScoresWithinBounds ==
    (called = "omr" /\ ~scores.raised) =>
        /\ \A s \in SubjectNames :
              /\ scores.value.subject_breakdown[s].correct
                    \in 0..questions_per_subject
              /\ RatLeq(Rat(0, 1), scores.value.subject_scores[s])
              /\ RatLeq(scores.value.subject_scores[s], Rat(20, 1))
        /\ RatLeq(Rat(0, 1), scores.value.total_score)
        /\ RatLeq(scores.value.total_score, Rat(20 * Len(subjects), 1))
        /\ scores.value.correct_answers =
              SumField(CorrectCounts(scores.value), "correct")
        /\ scores.value.correct_answers <= total_questions

-----------------------------------------------------------------------------
(* The two scorers side by side (checked under ScoreSpec) *)

\* the identifier is the decimal numeral of a question number from 1 on
PlainNumeral(k) ==
    /\ int(k).ok
    /\ int(k).val >= 1
    /\ k = str(int(k).val)

\* the AnswerMap and the key are keyed by plain numerals only
PlainlyKeyed ==
    /\ \A j \in 1..Len(student_answers) : PlainNumeral(student_answers[j][1])
    /\ \A k \in DOMAIN correct_answers : PlainNumeral(k)

\* C27: for an AnswerMap and a key keyed by "1".."N",
\* OMRProcessor.calculate_subject_scores and utils.calculate_subject_scores
\* report the same number of correct answers for every subject and in
\* total, whatever the case of the answers and whether they are letters,
\* null or lists.
C27_ScorersAgree ==
    (called = "omr" /\ ~scores.raised /\ PlainlyKeyed) =>
        LET other == utils_calculate_subject_scores(
                         student_answers, correct_answers,
                         subjects, questions_per_subject).value
        IN /\ \A s \in SubjectNames :
                 scores.value.subject_breakdown[s].correct =
                     other.subject_scores[s].score
           /\ scores.value.correct_answers = other.total_score

-----------------------------------------------------------------------------
(* The shape of a returned result (checked under Spec) *)

\* the results that process_omr_sheet has returned or is about to return
ReturnedResults ==
    {batch_results[n] : n \in 1..Len(batch_results)}
        \cup (IF pc = "return" THEN {results} ELSE {})

\* C28: a returned result has success = true exactly when its error_message
\* is null, and a successful result has its processed and overlay paths set
\* and a scores section: a score result or the missing-key error payload.
C28_SuccessIffNoError ==
    \A r \in ReturnedResults :
        /\ r.success <=> (r.error_message = PyNone)
        /\ r.success =>
              /\ r.file_paths.processed # PyNone
              /\ r.file_paths.overlay # PyNone
              /\ \/ "total_score" \in DOMAIN r.scores
                 \/ DOMAIN r.scores = {"error"}

\* a returned batch: the first sheet succeeded without a key, the second
\* failed in its overlay step with its processed path and scores in place
C28_Witness ==
    /\ batch_pc = "returned"
    /\ Len(batch_results) = 2
    /\ batch_results[1].success
    /\ DOMAIN batch_results[1].scores = {"error"}
    /\ batch_results[1].file_paths.overlay = PyStr(<<"good", "_overlay", ".", "jpg">>)
    /\ ~batch_results[2].success
    /\ batch_results[2].error_message # PyNone
    /\ batch_results[2].file_paths.processed # PyNone
    /\ batch_results[2].file_paths.overlay = PyNone

-----------------------------------------------------------------------------
(* OMRProcessor.generate_summary_report *)

\* line 341: the results with success = True, in list order
RECURSIVE SuccessfulResults(_)
SuccessfulResults(batch_results_arg) ==
    IF Len(batch_results_arg) = 0 THEN <<>>
    ELSE (IF batch_results_arg[1].success
          THEN <<batch_results_arg[1]>> ELSE <<>>)
         \o SuccessfulResults(Tail(batch_results_arg))

\* the scores list with an unscored sheet counted as 0
RECURSIVE TotalScores_UnscoredAsZero(_)
TotalScores_UnscoredAsZero(successful_results) ==
    IF Len(successful_results) = 0 THEN <<>>
    ELSE (IF "total_score" \in DOMAIN successful_results[1].scores
          THEN <<successful_results[1].scores.total_score>>
          ELSE <<Rat(0, 1)>>)
         \o TotalScores_UnscoredAsZero(Tail(successful_results))

\* lines 347-348: the total_score of the results that have one
RECURSIVE TotalScores(_)
TotalScores(successful_results) ==
    IF Len(successful_results) = 0 THEN <<>>
    ELSE (IF "total_score" \in DOMAIN successful_results[1].scores
          THEN <<successful_results[1].scores.total_score>>
          ELSE <<>>)
         \o TotalScores(Tail(successful_results))

\* np.mean of a non-empty list
Mean(values) ==
    LET sum == RatSum(values) IN Rat(sum.n, sum.d * Len(values))

\* lines 353-355: the flags of the given results, in order
RECURSIVE AllFlagged(_)
AllFlagged(successful_results) ==
    IF Len(successful_results) = 0 THEN <<>>
    ELSE successful_results[1].flagged_questions
         \o AllFlagged(Tail(successful_results))

\* line 359: flag.get("issue", "unknown")
IssueOf(flag) == IF "issue" \in DOMAIN flag THEN flag.issue ELSE "unknown"

\* lines 357-360: the dict issue -> count, as its items in insertion order
RECURSIVE IssueCounts(_, _)
IssueCounts(issue_counts, all_flagged) ==
    IF Len(all_flagged) = 0 THEN issue_counts
    ELSE LET issue == IssueOf(all_flagged[1])
             counted == \E j \in 1..Len(issue_counts) : issue_counts[j][1] = issue
         IN IssueCounts(
                IF counted
                THEN [j \in 1..Len(issue_counts) |->
                        IF issue_counts[j][1] = issue
                        THEN <<issue, issue_counts[j][2] + 1>>
                        ELSE issue_counts[j]]
                ELSE Append(issue_counts, <<issue, 1>>),
                Tail(all_flagged))

\* lines 328-364
generate_summary_report(batch_results_arg) ==
    LET successful_results == SuccessfulResults(batch_results_arg)
        total_scores == TotalScores(successful_results)
    IN [total_sheets |-> Len(batch_results_arg),
        successful_processing |-> Len(successful_results),
        failed_processing |->
            Len(batch_results_arg) - Len(successful_results),
        average_score |->
            IF Len(successful_results) > 0 /\ Len(total_scores) > 0
            THEN Mean(total_scores) ELSE Rat(0, 1),
        score_distribution |-> <<>>,
        common_issues |->
            IF Len(successful_results) > 0
            THEN IssueCounts(<<>>, AllFlagged(successful_results))
            ELSE <<>>,
        processing_time |-> PyNone,
        confidence_summary |-> <<>>]

-----------------------------------------------------------------------------
(* utils.calculate_score_distribution *)

\* int(x) of a float: truncation towards zero
Trunc(x) ==
    IF x.n >= 0 THEN x.n \div x.d ELSE 0 - ((0 - x.n) \div x.d)

\* an int inside an f-string
FormatInt(n) == IF n < 0 THEN <<"-">> \o str(0 - n) ELSE str(n)

\* lines 262 and 265: f"{int(a)}-{int(b)}"
BinLabel(a, b) == FormatInt(Trunc(a)) \o <<"-">> \o FormatInt(Trunc(b))

\* dict[k] = v on the items of a dict: a new key goes to the end, an old
\* key keeps its place and gets the new value
SetItem(items, k, v) ==
    IF \E j \in 1..Len(items) : items[j][1] = k
    THEN [j \in 1..Len(items) |->
            IF items[j][1] = k THEN <<k, v>> ELSE items[j]]
    ELSE Append(items, <<k, v>>)

\* line 254
BinSize(min_score, max_score, bins) ==
    IF max_score > min_score THEN Rat(max_score - min_score, bins)
    ELSE Rat(1, 1)

\* lines 258-259: min_score + i * bin_size
BinEdge(min_score, bin_size, i) ==
    RatAdd(Rat(min_score, 1), Rat(i * bin_size.n, bin_size.d))

\* lines 257-268: the loop over range(bins) from bin i on
RECURSIVE BinLoop(_, _, _, _, _, _)
BinLoop(distribution, score_list, min_score, bin_size, bins, i) ==
    IF i >= bins THEN distribution
    ELSE
      LET bin_start == BinEdge(min_score, bin_size, i)
          bin_end == BinEdge(min_score, bin_size, i + 1)
          idx == 1..Len(score_list)
          last == i = bins - 1
          bin_label ==
            IF last THEN BinLabel(bin_start, bin_end)
            ELSE BinLabel(bin_start, RatAdd(bin_end, Rat(0 - 1, 1)))
          count ==
            IF last
            THEN Cardinality({k \in idx :
                    /\ RatLeq(bin_start, Rat(score_list[k], 1))
                    /\ RatLeq(Rat(score_list[k], 1), bin_end)})
            ELSE Cardinality({k \in idx :
                    /\ RatLeq(bin_start, Rat(score_list[k], 1))
                    /\ RatLt(Rat(score_list[k], 1), bin_end)})
      IN BinLoop(SetItem(distribution, bin_label, count),
                 score_list, min_score, bin_size, bins, i + 1)

\* lines 247-270; bins >= 1
calculate_score_distribution(score_list, bins) ==
    IF Len(score_list) = 0 THEN <<>>
    ELSE
      LET idx == 1..Len(score_list)
          min_score == score_list[CHOOSE j \in idx :
                           \A k \in idx : score_list[j] <= score_list[k]]
          max_score == score_list[CHOOSE j \in idx :
                           \A k \in idx : score_list[k] <= score_list[j]]
      IN BinLoop(<<>>, score_list, min_score,
                 BinSize(min_score, max_score, bins), bins, 0)

-----------------------------------------------------------------------------
(* The arguments of the report functions and their calls *)

\* a scores section with the given total
Scored(total) == [InitialScores EXCEPT !.total_score = Rat(total, 1)]

\* flagged_questions lists; the last flag of the third has no "issue" entry
FlagLists ==
    { <<>>,
      << [question |-> <<"2">>, issue |-> "multiple_marks"],
         [question |-> <<"3">>, issue |-> "no_mark"] >>,
      << [question |-> <<"3">>, issue |-> "no_mark"],
         [question |-> <<"7">>] >> }

\* results as process_omr_sheet returns them: successful with a score or
\* with the missing-key payload, failed before mapping, failed in the
\* overlay step after scoring
SampleResults ==
    {[InitialResults(GoodSheet, PyNone, PyNone) EXCEPT
          !.success = TRUE,
          !.scores = sc,
          !.flagged_questions = fl,
          !.file_paths.processed = PyStr(ReplaceDots(GoodSheet, "_processed")),
          !.file_paths.overlay = PyStr(ReplaceDots(GoodSheet, "_overlay"))] :
        sc \in {Scored(100), Scored(45), MissingKeyPayload(VersionZ)},
        fl \in FlagLists}
    \cup
    {Handler(InitialResults(BadSheet, PyNone, PyNone), "UnreadableImageError"),
     Handler([InitialResults(GoneSheet, PyNone, PyNone) EXCEPT
                 !.scores = Scored(60),
                 !.flagged_questions =
                     <<[question |-> <<"1">>, issue |-> "no_mark"]>>],
             "AttributeError")}

SummaryCalls ==
    {[fn |-> "generate_summary_report", batch_results |-> rs] :
        rs \in UNION {[1..m -> SampleResults] : m \in 0..MaxResults}}

ScoreValues == {0, 1, 2, 5}

DistributionCalls ==
    {[fn |-> "calculate_score_distribution", scores |-> sl, bins |-> b] :
        sl \in UNION {[1..m -> ScoreValues] : m \in 0..MaxScores},
        b \in 1..MaxBins}

ReportInit ==
    /\ util_call \in SummaryCalls \cup DistributionCalls
    /\ util_result = NotCalled
    /\ ScorerUnused
    /\ OverlayUnused
    /\ PipelineUnused

GenerateSummaryReport ==
    /\ util_result = NotCalled
    /\ util_call.fn = "generate_summary_report"
    /\ util_result' = Returned(generate_summary_report(util_call.batch_results))
    /\ UNCHANGED <<util_call, scorer_vars, overlay_vars, pipeline_vars>>

CalculateScoreDistribution ==
    /\ util_result = NotCalled
    /\ util_call.fn = "calculate_score_distribution"
    /\ util_result' = Returned(calculate_score_distribution(util_call.scores,
                                                            util_call.bins))
    /\ UNCHANGED <<util_call, scorer_vars, overlay_vars, pipeline_vars>>

ReportNext ==
    \/ GenerateSummaryReport
    \/ CalculateScoreDistribution

ReportSpec == ReportInit /\ [][ReportNext]_vars

-----------------------------------------------------------------------------
(* Properties of the report functions (checked under ReportSpec) *)

\* the sum of the total_score of the results with the given positions
RECURSIVE ScoreSum(_, _)
ScoreSum(rs, S) ==
    IF S = {} THEN Rat(0, 1)
    ELSE LET n == CHOOSE m \in S : TRUE
         IN RatAdd(rs[n].scores.total_score, ScoreSum(rs, S \ {n}))

\* the sum of the counts of a dict label -> count
RECURSIVE CountTotal(_)
CountTotal(items) ==
    IF Len(items) = 0 THEN 0 ELSE items[1][2] + CountTotal(Tail(items))

\* C29: in a summary report successful_processing + failed_processing =
\* total_sheets; average_score is the mean of total_score over the
\* successful sheets that have one (successful sheets with the missing-key
\* payload and failed sheets do not count); common_issues counts the flags
\* of the successful sheets only, and its counts sum to their number.
C29_SummaryOverSuccessfulSheets ==
    UtilReturned("generate_summary_report") =>
        LET rs == util_call.batch_results
            summary == util_result.value
            good == {n \in 1..Len(rs) : rs[n].success}
            scored == {n \in good : "total_score" \in DOMAIN rs[n].scores}
            flags == {nk \in good \X (1..2) :
                         nk[2] <= Len(rs[nk[1]].flagged_questions)}
            issue(nk) ==
                LET flag == rs[nk[1]].flagged_questions[nk[2]]
                IN IF "issue" \in DOMAIN flag THEN flag.issue ELSE "unknown"
            issues == summary.common_issues
        IN /\ summary.total_sheets = Len(rs)
           /\ summary.successful_processing = Cardinality(good)
           /\ summary.successful_processing + summary.failed_processing
                 = summary.total_sheets
           /\ IF scored = {} THEN RatEq(summary.average_score, Rat(0, 1))
              ELSE RatEq(Rat(summary.average_score.n * Cardinality(scored),
                             summary.average_score.d),
                         ScoreSum(rs, scored))
           /\ \A j \in 1..Len(issues) :
                 /\ issues[j][2] =
                       Cardinality({nk \in flags : issue(nk) = issues[j][1]})
                 /\ \A k \in 1..Len(issues) : issues[k][1] = issues[j][1] => k = j
           /\ \A nk \in flags :
                 \E j \in 1..Len(issues) : issues[j][1] = issue(nk)
           /\ CountTotal(issues) = Cardinality(flags)

\* the report of three sheets: one scored 45, one successful without a key
\* and with two flags, one failed after it was scored and flagged
C29_Witness ==
    /\ UtilReturned("generate_summary_report")
    /\ Len(util_call.batch_results) = 3
    /\ util_call.batch_results[1].success
    /\ util_call.batch_results[1].scores = Scored(45)
    /\ util_call.batch_results[2].success
    /\ DOMAIN util_call.batch_results[2].scores = {"error"}
    /\ Len(util_call.batch_results[2].flagged_questions) = 2
    /\ ~util_call.batch_results[3].success
    /\ "total_score" \in DOMAIN util_call.batch_results[3].scores
    /\ util_result.value.average_score = Rat(45, 1)
    /\ util_result.value.failed_processing = 1
    /\ CountTotal(util_result.value.common_issues) >= 2

\* C30: for a non-empty list of integer scores and bins >= 1 the counts of
\* the distribution sum to the number of scores, also when the range of the
\* scores is smaller than the number of bins or all scores are equal.
C30_EveryScoreInOneBin ==
    (/\ UtilReturned("calculate_score_distribution")
     /\ Len(util_call.scores) > 0
     /\ util_call.bins >= 1)
    => CountTotal(util_result.value) = Len(util_call.scores)

====
